---- MODULE Spec2Model ----
(***************************************************************************)
(* Python-SecureHTTP (src/SecureHTTP.py): the hybrid-encryption envelope   *)
(* protocol between EncryptedCommunicationClient and                       *)
(* EncryptedCommunicationServer, with the canonicalizing signer and the    *)
(* AES / RSA adapters it rests on.                                         *)
(*                                                                         *)
(* Python values are tagged tuples:                                        *)
(*   <<"none">>  <<"bool", b>>  <<"int", n>>  <<"str", chars>>             *)
(*   <<"dict", items>>   items: a sequence of <<key, value>> pairs in      *)
(*                       insertion order, the keys distinct                *)
(* A text is a sequence of characters, each a one-character string; a      *)
(* character with no TLA+ escape is written as an atom ("x01" is U+0001).  *)
(***************************************************************************)
EXTENDS Integers, Sequences, FiniteSets, TLC

(***************************************************************************)
(* Characters                                                              *)
(***************************************************************************)

\* The characters of the model in ascending code point order.
AsciiOrder ==
    << "x01", "x02", "x03", "x04", "x05", "x06", "x07", "x08", "\t", "\n",
       "x0b", "x0c", "\r", "x0e", "x0f", "x10",
       " ", "\"", "%", "&", "*", "+", ",", "-", ".", "/",
       "0", "1", "2", "3", "4", "5", "6", "7", "8", "9", ":", "=",
       "A", "B", "C", "D", "E", "F", "I", "M", "S", "T", "V", "Z",
       "\\", "_",
       "a", "b", "c", "d", "e", "f", "g", "h", "i", "k", "l", "m", "n", "o",
       "p", "r", "s", "t", "u", "v", "x", "y",
       "{", "}", "~" >>

CodePoint(ch) ==
    IF \E i \in 1..Len(AsciiOrder) : AsciiOrder[i] = ch
    THEN CHOOSE i \in 1..Len(AsciiOrder) : AsciiOrder[i] = ch
    ELSE 0

\* chr(1) .. chr(16), the characters PADDING appends.
Chr(n) == AsciiOrder[n]

\* The class [\x00-\x08\x0b-\x0c\x0e-\x1f\n\r\t] that AESDecrypt removes.
ControlChars ==
    { "x01", "x02", "x03", "x04", "x05", "x06", "x07", "x08", "\t", "\n",
      "x0b", "x0c", "\r", "x0e", "x0f", "x10" }

Digits == << "0", "1", "2", "3", "4", "5", "6", "7", "8", "9" >>

DigitChars == { Digits[i] : i \in 1..10 }

DigitVal(ch) == (CHOOSE i \in 1..10 : Digits[i] = ch) - 1

RECURSIVE IntToChars(_)
IntToChars(n) ==
    IF n < 10 THEN << Digits[n + 1] >>
    ELSE IntToChars(n \div 10) \o << Digits[(n % 10) + 1] >>

\* "abc" of a text, as one TLA+ string.
RECURSIVE FlatRange(_, _, _)
FlatRange(s, lo, hi) ==
    IF lo > hi THEN ""
    ELSE IF lo = hi THEN s[lo]
    ELSE FlatRange(s, lo, (lo + hi) \div 2)
         \o FlatRange(s, ((lo + hi) \div 2) + 1, hi)

Flat(s) == FlatRange(s, 1, Len(s))

\* The least number of a non-empty set.
Least(S) == CHOOSE i \in S : \A j \in S : i <= j

\* s.find(pat) + 1: where the leftmost occurrence starts, 0 when there is none.
Find(s, pat) ==
    Least({ i \in 1..(Len(s) - Len(pat) + 1) :
              SubSeq(s, i, i + Len(pat) - 1) = pat } \cup { Len(s) + 1 })
    % (Len(s) + 1)

\* s.replace(pat, rep): the leftmost occurrence, then the rest of the text.
RECURSIVE Replace(_, _, _)
ReplaceAt(s, pat, rep, i) ==
    IF i = 0 THEN s
    ELSE SubSeq(s, 1, i - 1) \o rep
         \o Replace(SubSeq(s, i + Len(pat), Len(s)), pat, rep)

Replace(s, pat, rep) == ReplaceAt(s, pat, rep, Find(s, pat))

\* The first place two texts differ in, 0 when one is a prefix of the other.
FirstDifference(a, b) ==
    Least({ i \in 1..Len(a) : i <= Len(b) /\ a[i] # b[i] } \cup { Len(a) + 1 })
    % (Len(a) + 1)

StrLessAt(a, b, i) ==
    IF i = 0 THEN Len(a) < Len(b) ELSE CodePoint(a[i]) < CodePoint(b[i])

\* Lexicographic order of two texts by code point: Python's str.__lt__.
StrLess(a, b) == StrLessAt(a, b, FirstDifference(a, b))

(***************************************************************************)
(* Python values                                                           *)
(***************************************************************************)

PyNone == << "none" >>
PyFalse == << "bool", FALSE >>
PyTrue == << "bool", TRUE >>
PyInt(n) == << "int", n >>
PyStr(s) == << "str", s >>
PyDict(items) == << "dict", items >>

IsStr(v) == v[1] = "str"
IsDict(v) == v[1] = "dict"

\* bool(v)
Truthy(v) ==
    CASE v[1] = "none" -> FALSE
      [] v[1] = "bool" -> v[2]
      [] v[1] = "int" -> v[2] # 0
      [] v[1] \in { "str", "dict" } -> v[2] # << >>
      [] OTHER -> TRUE

\* a == b for the values of the model (no bool / int pair is ever compared).
PyEq(a, b) == a[1] = b[1] /\ (a[1] = "none" \/ a[2] = b[2])

Keys(items) == { items[i][1] : i \in 1..Len(items) }

HasKey(items, k) == \E i \in 1..Len(items) : items[i][1] = k

\* d[k], for a key that is there
Get(items, k) == items[CHOOSE i \in 1..Len(items) : items[i][1] = k][2]

\* d[k] = v: an existing key keeps its place, a new one goes last.
Put(items, k, v) ==
    IF HasKey(items, k)
    THEN [ i \in 1..Len(items) |->
             IF items[i][1] = k THEN << k, v >> ELSE items[i] ]
    ELSE Append(items, << k, v >>)

\* d without k (the dict after d.pop(k))
Without(items, k) == SelectSeq(items, LAMBDA it : it[1] # k)

\* d1 == d2 for two dicts: the same keys, each with the same value.
DictEq(a, b) ==
    /\ Keys(a) = Keys(b)
    /\ \A k \in Keys(a) : Get(a, k) = Get(b, k)

(***************************************************************************)
(* json.dumps and json.loads                                               *)
(***************************************************************************)

HexDigits ==
    << "0", "1", "2", "3", "4", "5", "6", "7", "8", "9",
       "a", "b", "c", "d", "e", "f" >>

HexVal(ch) ==
    IF \E i \in 1..16 : HexDigits[i] = ch
    THEN (CHOOSE i \in 1..16 : HexDigits[i] = ch) - 1
    ELSE 16

\* One character of a str inside a JSON string (ensure_ascii).
EscapeChar(ch) ==
    CASE ch = "\"" -> << "\\", "\"" >>
      [] ch = "\\" -> << "\\", "\\" >>
      [] ch = "\n" -> << "\\", "n" >>
      [] ch = "\r" -> << "\\", "r" >>
      [] ch = "\t" -> << "\\", "t" >>
      [] ch \in ControlChars \ { "\n", "\r", "\t" } ->
           << "\\", "u", "0", "0",
              HexDigits[(CodePoint(ch) \div 16) + 1],
              HexDigits[(CodePoint(ch) % 16) + 1] >>
      [] OTHER -> << ch >>

RECURSIVE EscapeRange(_, _, _)
EscapeRange(s, lo, hi) ==
    IF lo > hi THEN << >>
    ELSE IF lo = hi THEN EscapeChar(s[lo])
    ELSE EscapeRange(s, lo, (lo + hi) \div 2)
         \o EscapeRange(s, ((lo + hi) \div 2) + 1, hi)

EscapeStr(s) == EscapeRange(s, 1, Len(s))

JsonString(s) == << "\"" >> \o EscapeStr(s) \o << "\"" >>

\* sorted(items, key=lambda kv: kv[0]): insertion into a sorted sequence.
RECURSIVE InsertSorted(_, _)
InsertSorted(sorted, it) ==
    IF sorted = << >> THEN << it >>
    ELSE IF StrLess(it[1], Head(sorted)[1])
         THEN << it >> \o sorted
         ELSE << Head(sorted) >> \o InsertSorted(Tail(sorted), it)

\* The items in the order the dict yields them.
SortByKey_Unsorted(items) == items

RECURSIVE SortByKey(_)
SortByKey(items) ==
    IF items = << >> THEN << >>
    ELSE InsertSorted(SortByKey(SubSeq(items, 1, Len(items) - 1)),
                      items[Len(items)])

\* json.dumps(v, sort_keys=sortKeys, separators=(',', ':') if compact)
RECURSIVE JsonDumps(_, _, _)
RECURSIVE DumpMembers(_, _, _)
JsonDumps(v, compact, sortKeys) ==
    CASE v[1] = "none" -> << "n", "u", "l", "l" >>
      [] v[1] = "bool" ->
           IF v[2] THEN << "t", "r", "u", "e" >>
           ELSE << "f", "a", "l", "s", "e" >>
      [] v[1] = "int" -> IntToChars(v[2])
      [] v[1] = "str" -> JsonString(v[2])
      [] v[1] = "dict" ->
           << "{" >>
           \o DumpMembers(IF sortKeys THEN SortByKey(v[2]) ELSE v[2],
                          compact, sortKeys)
           \o << "}" >>

DumpMembers(items, compact, sortKeys) ==
    IF items = << >> THEN << >>
    ELSE JsonString(Head(items)[1])
         \o (IF compact THEN << ":" >> ELSE << ":", " " >>)
         \o JsonDumps(Head(items)[2], compact, sortKeys)
         \o (IF Len(items) = 1 THEN << >>
             ELSE IF compact THEN << "," >> ELSE << ",", " " >>)
         \o DumpMembers(Tail(items), compact, sortKeys)

\* The parser's results: a value and the position after it, or a failure.
Parsed(v, i) == [ ok |-> TRUE, val |-> v, pos |-> i ]
NoParse == [ ok |-> FALSE, val |-> PyNone, pos |-> 0 ]

At(s, i) == IF i <= Len(s) THEN s[i] ELSE ""

StartsAt(s, i, word) ==
    /\ i + Len(word) - 1 <= Len(s)
    /\ SubSeq(s, i, i + Len(word) - 1) = word

\* The characters of a JSON string from position i (after the opening quote).
\* The next quote, backslash or control character from a place on, 0 when
\* the text has none.
NextStop(s, from) ==
    Least({ j \in from..Len(s) : s[j] \in { "\"", "\\" } \cup ControlChars }
          \cup { Len(s) + 1 })
    % (Len(s) + 1)

RECURSIVE ScanString(_, _, _)
ScanEscape(s, i, acc) ==
    CASE At(s, i + 1) = "\"" -> ScanString(s, i + 2, Append(acc, "\""))
      [] At(s, i + 1) = "\\" -> ScanString(s, i + 2, Append(acc, "\\"))
      [] At(s, i + 1) = "n" -> ScanString(s, i + 2, Append(acc, "\n"))
      [] At(s, i + 1) = "r" -> ScanString(s, i + 2, Append(acc, "\r"))
      [] At(s, i + 1) = "t" -> ScanString(s, i + 2, Append(acc, "\t"))
      [] At(s, i + 1) = "u" /\ i + 5 <= Len(s)
         /\ s[i + 2] = "0" /\ s[i + 3] = "0"
         /\ 16 * HexVal(s[i + 4]) + HexVal(s[i + 5]) \in 1..16 ->
           ScanString(s, i + 6,
               Append(acc, Chr(16 * HexVal(s[i + 4]) + HexVal(s[i + 5]))))
      [] OTHER -> NoParse

ScanTo(s, from, acc, i) ==
    IF i = 0 THEN NoParse
    ELSE IF s[i] = "\"" THEN Parsed(PyStr(acc \o SubSeq(s, from, i - 1)), i + 1)
    ELSE IF s[i] = "\\" THEN ScanEscape(s, i, acc \o SubSeq(s, from, i - 1))
    ELSE NoParse

\* It reads on to the next quote, backslash or control character at once.
ScanString(s, from, acc) == ScanTo(s, from, acc, NextStop(s, from))

RECURSIVE ScanNumber(_, _, _)
ScanNumber(s, i, acc) ==
    IF At(s, i) \in DigitChars
    THEN ScanNumber(s, i + 1, 10 * acc + DigitVal(s[i]))
    ELSE Parsed(PyInt(acc), i)

RECURSIVE ParseValue(_, _)
RECURSIVE ParseMembers(_, _, _)
ParseValue(s, i) ==
    CASE StartsAt(s, i, << "n", "u", "l", "l" >>) -> Parsed(PyNone, i + 4)
      [] StartsAt(s, i, << "t", "r", "u", "e" >>) -> Parsed(PyTrue, i + 4)
      [] StartsAt(s, i, << "f", "a", "l", "s", "e" >>) -> Parsed(PyFalse, i + 5)
      [] At(s, i) \in DigitChars -> ScanNumber(s, i, 0)
      [] At(s, i) = "\"" -> ScanString(s, i + 1, << >>)
      [] At(s, i) = "{" ->
           IF At(s, i + 1) = "}" THEN Parsed(PyDict(<< >>), i + 2)
           ELSE ParseMembers(s, i + 1, << >>)
      [] OTHER -> NoParse

\* "key":value members from position i up to the closing brace.
ParseMembers(s, i, acc) ==
    IF At(s, i) # "\"" THEN NoParse
    ELSE LET k == ScanString(s, i + 1, << >>) IN
         IF ~k.ok \/ At(s, k.pos) # ":" THEN NoParse
         ELSE LET v == ParseValue(s, k.pos + 1) IN
              IF ~v.ok THEN NoParse
              ELSE LET items == Put(acc, k.val[2], v.val) IN
                   CASE At(s, v.pos) = "}" -> Parsed(PyDict(items), v.pos + 1)
                     [] At(s, v.pos) = "," -> ParseMembers(s, v.pos + 1, items)
                     [] OTHER -> NoParse

\* What a call returns or raises: st is "ok" or the exception's name.
Ok(v) == [ st |-> "ok", val |-> v ]
Raise(e) == [ st |-> e, val |-> PyNone ]

\* json.loads(text)
JsonLoads(text) ==
    IF ~IsStr(text) THEN Raise("TypeError")
    ELSE LET r == ParseValue(text[2], 1) IN
         IF r.ok /\ r.pos = Len(text[2]) + 1 THEN Ok(r.val)
         ELSE Raise("ValueError")

(***************************************************************************)
(* The adapters: MD5, RSA, AES.  A ciphertext is a str holding base64; it  *)
(* is written <<"b64", c>> where c records the cipher, the key and the     *)
(* plaintext, so that only the right key recovers the plaintext.           *)
(***************************************************************************)

HexDigestLen == 32
AESBlockSize == 16

IsText(v) == v[1] \in { "str", "b64" }

B64(c) == << "b64", c >>

\* len(s) of a str

\* hashlib.md5(message).hexdigest(): a str of 32 characters, one digest per
\* message (the first character stands for the message digested).
Md5(message) ==
    PyStr([ i \in 1..HexDigestLen |->
              IF i = 1 THEN "md5:" \o Flat(message) ELSE "0" ])

\* md5(Random.new().read(AES.block_size)), the random block being r
GenAesKey(r) == Md5(r)

\* A PEM key: the pair it belongs to, its half and its format.
PublicKey(id, fmt) == << "pem", [ half |-> "public", fmt |-> fmt, id |-> id ] >>
PrivateKey(id) == << "pem", [ half |-> "private", fmt |-> "pkcs1", id |-> id ] >>

\* RSAEncrypt(pubkey, plaintext): both public key formats load.
RSAEncrypt(pubkey, plaintext) ==
    IF pubkey[1] # "pem" \/ pubkey[2].half # "public" THEN Raise("ValueError")
    ELSE IF ~IsStr(plaintext) THEN Raise("AttributeError")
    ELSE Ok(B64([ alg |-> "rsa", key |-> << pubkey[2].id >>, pt |-> plaintext[2] ]))

\* RSADecrypt(privkey, ciphertext)
RSADecrypt(privkey, ciphertext) ==
    IF privkey[1] # "pem" \/ privkey[2].half # "private" THEN Raise("ValueError")
    ELSE IF ~IsText(ciphertext) THEN Raise("TypeError")
    ELSE IF ciphertext[1] # "b64" THEN Raise("ValueError")
    ELSE IF ciphertext[2].alg # "rsa" \/ ciphertext[2].key # << privkey[2].id >>
         THEN Raise("DecryptionError")
    ELSE Ok(PyStr(ciphertext[2].pt))

\* The guard with mod(len(key), 8).
AESParamsOk_Mod8(key, text) ==
    /\ Truthy(key)
    /\ IsStr(key)
    /\ Len(key[2]) % 8 = 0
    /\ Truthy(text)
    /\ IsText(text)

\* The guard AESEncrypt and AESDecrypt share (lines 152 and 174).
AESParamsOk(key, text) ==
    /\ Truthy(key)
    /\ IsStr(key)
    /\ Len(key[2]) % AESBlockSize = 0
    /\ Truthy(text)
    /\ IsText(text)

\* AES.new(key, AES.MODE_CBC, key[:AES.block_size]) accepts 16, 24 or 32 bytes.
AESNewOk(key) == Len(key[2]) \in { 16, 24, 32 }

\* PADDING(s)
Padding(s) ==
    LET n == AESBlockSize - (Len(s) % AESBlockSize)
    IN  s \o [ i \in 1..n |-> Chr(n) ]

\* The pattern with \n\r\t alone, without the three ranges.
StripControl_WhitespaceOnly(s) ==
    SelectSeq(s, LAMBDA ch : ch \notin { Chr(9), Chr(10), Chr(13) })

\* re.compile('[\x00-\x08\x0b-\x0c\x0e-\x1f\n\r\t]').sub('', msg)
StripControl(s) == SelectSeq(s, LAMBDA ch : ch \notin ControlChars)

\* AESEncrypt(key, plaintext)
AESEncrypt(key, plaintext) ==
    IF ~AESParamsOk(key, plaintext) THEN Raise("AESError")
    ELSE IF ~AESNewOk(key) THEN Raise("ValueError")
    ELSE Ok(B64([ alg |-> "aes", key |-> key[2], pt |-> Padding(plaintext[2]) ]))

\* What the bytes decrypted under a wrong key look like: not text, or text.
Garbles == { "nontext", "text" }

\* A text that wrong-key bytes decode to: no JSON document.
GarbageText == << "?" >>

\* AESDecrypt getting the plaintext back whatever the key is.
AESDecrypt_AnyKey(key, ciphertext, g) ==
    IF ~AESParamsOk(key, ciphertext) THEN Raise("AESError")
    ELSE IF ~AESNewOk(key) THEN Raise("ValueError")
    ELSE IF ciphertext[1] # "b64" THEN Raise("ValueError")
    ELSE Ok(PyStr(StripControl(ciphertext[2].pt)))

\* AESDecrypt with the except clause of line 183 raising what it caught.
AESDecrypt_Reraise(key, ciphertext, g) ==
    IF ~AESParamsOk(key, ciphertext) THEN Raise("AESError")
    ELSE IF ~AESNewOk(key) THEN Raise("ValueError")
    ELSE IF ciphertext[1] # "b64" THEN Raise("ValueError")
    ELSE IF ciphertext[2].alg = "aes" /\ ciphertext[2].key = key[2]
         THEN Ok(PyStr(StripControl(ciphertext[2].pt)))
    ELSE IF g = "nontext" THEN Raise("UnicodeDecodeError")
    ELSE Ok(PyStr(GarbageText))

\* AESDecrypt(key, ciphertext); g is what wrong-key bytes turn out to be.
AESDecrypt(key, ciphertext, g) ==
    IF ~AESParamsOk(key, ciphertext) THEN Raise("AESError")
    ELSE IF ~AESNewOk(key) THEN Raise("ValueError")
    ELSE IF ciphertext[1] # "b64" THEN Raise("ValueError")
    ELSE IF ciphertext[2].alg = "aes" /\ ciphertext[2].key = key[2]
         THEN Ok(PyStr(StripControl(ciphertext[2].pt)))
    ELSE IF g = "nontext" THEN Ok(PyFalse)
    ELSE Ok(PyStr(GarbageText))

(***************************************************************************)
(* EncryptedCommunicationMix: the canonicalizer and signer                 *)
(***************************************************************************)

\* The field names of the protocol.
K_meta == << "_", "_", "m", "e", "t", "a", "_", "_" >>
K_Signature == << "S", "i", "g", "n", "a", "t", "u", "r", "e" >>
K_SignatureIndex ==
    << "S", "i", "g", "n", "a", "t", "u", "r", "e", "I", "n", "d", "e", "x" >>
K_SignatureMethod ==
    << "S", "i", "g", "n", "a", "t", "u", "r", "e", "M", "e", "t", "h", "o", "d" >>
K_SignatureVersion ==
    << "S", "i", "g", "n", "a", "t", "u", "r", "e",
       "V", "e", "r", "s", "i", "o", "n" >>
K_Timestamp == << "T", "i", "m", "e", "s", "t", "a", "m", "p" >>
K_key == << "k", "e", "y" >>
K_value == << "v", "a", "l", "u", "e" >>
K_data == << "d", "a", "t", "a" >>

\* get_current_timestamp() when the clock reads now
GetCurrentTimestamp(now) == PyStr(<< "T" >> \o IntToChars(now) \o << "Z" >>)

Whitespace == { " ", "\t", "\n", "\r", "x0b", "x0c" }

\* re.compile(r"\s*,\s*").split(s): cur is the piece being read, ws the
\* whitespace read after it, skip whether a comma's trailing space is open.
RECURSIVE CommaSplit(_, _, _, _)
CommaSplit(s, cur, ws, skip) ==
    IF s = << >> THEN << cur \o ws >>
    ELSE IF Head(s) = "," THEN << cur >> \o CommaSplit(Tail(s), << >>, << >>, TRUE)
    ELSE IF Head(s) \in Whitespace THEN
         IF skip THEN CommaSplit(Tail(s), cur, ws, TRUE)
         ELSE CommaSplit(Tail(s), cur, Append(ws, Head(s)), FALSE)
    ELSE CommaSplit(Tail(s), cur \o ws \o << Head(s) >>, << >>, FALSE)

\* conversionComma(comma_str)
conversionComma(comma_str) ==
    IF Truthy(comma_str) /\ IsStr(comma_str)
    THEN SelectSeq(CommaSplit(comma_str[2], << >>, << >>, FALSE),
                   LAMBDA piece : piece # << >>)
    ELSE << >>

\* The characters urllib's quote leaves alone with safe='' (letters, digits
\* and "_.-"), here those of the model; "~" joins them from Python 3.7 on,
\* and line 307 makes the two agree.
AlwaysSafe ==
    DigitChars \cup
    { "A", "B", "C", "D", "E", "F", "I", "M", "S", "T", "V", "Z",
      "a", "b", "c", "d", "e", "f", "g", "h", "i", "k", "l", "m", "n", "o",
      "p", "r", "s", "t", "u", "v", "x", "y", "_", ".", "-" }

\* The two hex digits of the other characters.
QuoteHex ==
    << << " ", "2", "0" >>, << "\"", "2", "2" >>, << "%", "2", "5" >>,
       << "&", "2", "6" >>, << "*", "2", "A" >>, << "+", "2", "B" >>,
       << ",", "2", "C" >>, << "/", "2", "F" >>, << ":", "3", "A" >>,
       << "=", "3", "D" >>, << "\\", "5", "C" >>, << "{", "7", "B" >>,
       << "}", "7", "D" >>, << "~", "7", "E" >> >>

QuoteChar(ch) ==
    IF \E i \in 1..Len(QuoteHex) : QuoteHex[i][1] = ch
    THEN LET h == QuoteHex[CHOOSE i \in 1..Len(QuoteHex) : QuoteHex[i][1] = ch]
         IN  << "%", h[2], h[3] >>
    ELSE << ch >>

\* quote(s, '')
RECURSIVE QuoteRange(_, _, _)
QuoteRange(s, lo, hi) ==
    IF lo > hi THEN << >>
    ELSE IF lo = hi THEN QuoteChar(s[lo])
    ELSE QuoteRange(s, lo, (lo + hi) \div 2)
         \o QuoteRange(s, ((lo + hi) \div 2) + 1, hi)

Quote(s) == QuoteRange(s, 1, Len(s))

\* _percent_encode without line 307.
percent_encode_NoTilde(encodeStr) ==
    LET dumped == JsonDumps(encodeStr, FALSE, TRUE)
        res0 == Quote(dumped)
        res1 == Replace(res0, << "+" >>, << "%", "2", "0" >>)
    IN  Replace(res1, << "*" >>, << "%", "2", "A" >>)

\* _percent_encode(encodeStr)
percent_encode(encodeStr) ==
    LET dumped == JsonDumps(encodeStr, FALSE, TRUE)
        res0 == Quote(dumped)
        res1 == Replace(res0, << "+" >>, << "%", "2", "0" >>)
        res2 == Replace(res1, << "*" >>, << "%", "2", "A" >>)
    IN  Replace(res2, << "%", "7", "E" >>, << "~" >>)

\* data[k] = parameters[k] for k in signIndex (line 278-280)
RECURSIVE SelectFields(_, _, _)
SelectFields(parameters, signIndex, data) ==
    IF signIndex = << >> THEN data
    ELSE SelectFields(parameters, Tail(signIndex),
                      Put(data, Head(signIndex), Get(parameters, Head(signIndex))))

\* The same loop keeping the value a key of data already has.
RECURSIVE Update_KeepPayload(_, _)
Update_KeepPayload(data, meta) ==
    IF meta = << >> THEN data
    ELSE Update_KeepPayload(
             IF HasKey(data, Head(meta)[1]) THEN data
             ELSE Put(data, Head(meta)[1], Head(meta)[2]),
             Tail(meta))

\* for k, v in meta.items(): data[k] = v (line 284-285)
RECURSIVE Update(_, _)
Update(data, meta) ==
    IF meta = << >> THEN data
    ELSE Update(Put(data, Head(meta)[1], Head(meta)[2]), Tail(meta))

\* The string built from the sorted pairs (line 289-291).
RECURSIVE CanonicalizedRange(_, _, _)
CanonicalizedRange(mySorted, lo, hi) ==
    IF lo > hi THEN << >>
    ELSE IF lo = hi
         THEN percent_encode(PyStr(mySorted[lo][1])) \o << "=" >>
              \o percent_encode(mySorted[lo][2]) \o << "&" >>
    ELSE CanonicalizedRange(mySorted, lo, (lo + hi) \div 2)
         \o CanonicalizedRange(mySorted, ((lo + hi) \div 2) + 1, hi)

\* The pairs joined by "&", none after the last.
CanonicalizedQueryString_Joined(mySorted) ==
    SubSeq(CanonicalizedRange(mySorted, 1, Len(mySorted)), 1,
           Len(CanonicalizedRange(mySorted, 1, Len(mySorted))) - 1)

CanonicalizedQueryString(mySorted) ==
    CanonicalizedRange(mySorted, 1, Len(mySorted))

\* The same dict when the SignatureIndex is not looked at.
SignedData_WholePayload(parameters, meta) == Update(parameters, meta)

\* The dict sign() sorts and digests: the chosen fields, then the metadata.
\* Only for a signIndex that is not False and names fields that are there.
SignedData(parameters, meta) ==
    LET signIndex == IF HasKey(meta, K_SignatureIndex)
                     THEN Get(meta, K_SignatureIndex) ELSE PyNone
    IN  IF Truthy(signIndex) /\ IsStr(signIndex)
        THEN Update(SelectFields(parameters, conversionComma(signIndex), << >>),
                    meta)
        ELSE Update(parameters, meta)

\* sign taking an index that names an absent field as no index at all.
sign_AbsentIgnored(parameters, meta) ==
    IF ~(IsDict(parameters) /\ IsDict(meta)) THEN Raise("TypeError")
    ELSE LET signIndex == IF HasKey(meta[2], K_SignatureIndex)
                          THEN Get(meta[2], K_SignatureIndex) ELSE PyNone
         IN  IF signIndex = PyFalse THEN Ok(PyNone)
             ELSE IF /\ Truthy(signIndex) /\ IsStr(signIndex)
                     /\ \E i \in 1..Len(conversionComma(signIndex)) :
                          ~HasKey(parameters[2], conversionComma(signIndex)[i])
                  THEN Ok(Md5(CanonicalizedQueryString(
                               SortByKey(Update(parameters[2], meta[2])))))
             ELSE Ok(Md5(CanonicalizedQueryString(
                          SortByKey(SignedData(parameters[2], meta[2])))))

\* sign without the early return of lines 274-275: False signs all fields.
sign_NoSkip(parameters, meta) ==
    IF ~(IsDict(parameters) /\ IsDict(meta)) THEN Raise("TypeError")
    ELSE LET signIndex == IF HasKey(meta[2], K_SignatureIndex)
                          THEN Get(meta[2], K_SignatureIndex) ELSE PyNone
         IN  IF /\ Truthy(signIndex) /\ IsStr(signIndex)
                /\ \E i \in 1..Len(conversionComma(signIndex)) :
                     ~HasKey(parameters[2], conversionComma(signIndex)[i])
             THEN Raise("KeyError")
             ELSE Ok(Md5(CanonicalizedQueryString(
                          SortByKey(SignedData(parameters[2], meta[2])))))

\* sign(parameters, meta) on two Python values
sign(parameters, meta) ==
    IF ~(IsDict(parameters) /\ IsDict(meta)) THEN Raise("TypeError")
    ELSE LET signIndex == IF HasKey(meta[2], K_SignatureIndex)
                          THEN Get(meta[2], K_SignatureIndex) ELSE PyNone
         IN  IF signIndex = PyFalse THEN Ok(PyNone)
             ELSE IF /\ Truthy(signIndex) /\ IsStr(signIndex)
                     /\ \E i \in 1..Len(conversionComma(signIndex)) :
                          ~HasKey(parameters[2], conversionComma(signIndex)[i])
                  THEN Raise("KeyError")
             ELSE Ok(Md5(CanonicalizedQueryString(
                          SortByKey(SignedData(parameters[2], meta[2])))))

(***************************************************************************)
(* EncryptedCommunicationClient and EncryptedCommunicationServer, as       *)
(* functions of the instance's fields and the arguments.                   *)
(***************************************************************************)


\* dict(Timestamp=..., SignatureVersion="v1", SignatureMethod="MD5",
\*      SignatureIndex=signIndex)
MetaData(now, signIndex) ==
    PyDict(<< << K_Timestamp, GetCurrentTimestamp(now) >>,
              << K_SignatureVersion, PyStr(<< "v", "1" >>) >>,
              << K_SignatureMethod, PyStr(<< "M", "D", "5" >>) >>,
              << K_SignatureIndex, signIndex >> >>)

\* The steps the two encrypting methods share: sign a copy of the mapping,
\* attach the metadata to the copy, serialize it and encrypt it under AESKey.
SealPayload(AESKey, mapping, signIndex, now) ==
    LET metaData == MetaData(now, signIndex)
        signed == sign(mapping, metaData)
    IN  IF signed.st # "ok" THEN signed
        ELSE LET withSig == PyDict(Put(metaData[2], K_Signature, signed.val))
                 copy == PyDict(Put(mapping[2], K_meta, withSig))
             IN  AESEncrypt(AESKey, PyStr(JsonDumps(copy, TRUE, FALSE)))

\* clientEncrypt(post, signIndex) on a client with these fields
clientEncrypt(AESKey, PublicKey_, post_, signIndex, now) ==
    IF ~(Truthy(post_) /\ IsDict(post_)) THEN Raise("TypeError")
    ELSE LET RSAKey == RSAEncrypt(PublicKey_, AESKey) IN
         IF RSAKey.st # "ok" THEN RSAKey
         ELSE LET sealed == SealPayload(AESKey, post_, signIndex, now) IN
              IF sealed.st # "ok" THEN sealed
              ELSE Ok(PyDict(<< << K_key, RSAKey.val >>,
                                << K_value, sealed.val >> >>))

\* The same steps with the comparison of line 363 / 402 left out.
OpenPayload_NoCompare(decrypted) ==
    IF decrypted.st # "ok" THEN decrypted
    ELSE LET loaded == JsonLoads(decrypted.val) IN
         IF loaded.st # "ok" THEN loaded
         ELSE IF ~IsDict(loaded.val) THEN Raise("AttributeError")
         ELSE IF ~HasKey(loaded.val[2], K_meta) THEN Raise("KeyError")
         ELSE Ok(PyDict(Without(loaded.val[2], K_meta)))

\* The steps the two decrypting methods share, from the result of AESDecrypt
\* on: parse, pop __meta__ and Signature, sign again and compare.
OpenPayload(decrypted) ==
    IF decrypted.st # "ok" THEN decrypted
    ELSE LET loaded == JsonLoads(decrypted.val) IN
         IF loaded.st # "ok" THEN loaded
         ELSE IF ~IsDict(loaded.val) THEN Raise("AttributeError")
         ELSE IF ~HasKey(loaded.val[2], K_meta) THEN Raise("KeyError")
         ELSE LET metaAll == Get(loaded.val[2], K_meta)
                  data == PyDict(Without(loaded.val[2], K_meta))
              IN  IF ~IsDict(metaAll) THEN Raise("AttributeError")
                  ELSE IF ~HasKey(metaAll[2], K_Signature) THEN Raise("KeyError")
                  ELSE LET Signature == Get(metaAll[2], K_Signature)
                           metaData == PyDict(Without(metaAll[2], K_Signature))
                           SignData == sign(data, metaData)
                       IN  IF SignData.st # "ok" THEN SignData
                           ELSE IF PyEq(Signature, SignData.val) THEN Ok(data)
                           ELSE Raise("SignError")

\* clientDecrypt(encryptedRespData)
clientDecrypt(AESKey, encryptedRespData, g) ==
    IF /\ Truthy(encryptedRespData) /\ IsDict(encryptedRespData)
       /\ HasKey(encryptedRespData[2], K_data)
    THEN OpenPayload(AESDecrypt(AESKey, Get(encryptedRespData[2], K_data), g))
    ELSE Raise("TypeError")

\* serverDecrypt testing for the `key` field only before it goes on.
serverDecrypt_KeyOnly(PrivateKey_, encryptedPostData, g) ==
    IF /\ Truthy(encryptedPostData) /\ IsDict(encryptedPostData)
       /\ HasKey(encryptedPostData[2], K_key)
    THEN LET recovered == RSADecrypt(PrivateKey_, Get(encryptedPostData[2], K_key))
         IN  IF recovered.st # "ok"
             THEN [ out |-> recovered, assigns |-> FALSE, AESKey |-> PyNone ]
             ELSE IF ~HasKey(encryptedPostData[2], K_value)
             THEN [ out |-> Raise("KeyError"),
                    assigns |-> TRUE, AESKey |-> recovered.val ]
             ELSE [ out |-> OpenPayload(AESDecrypt(recovered.val,
                                Get(encryptedPostData[2], K_value), g)),
                    assigns |-> TRUE, AESKey |-> recovered.val ]
    ELSE [ out |-> Raise("TypeError"), assigns |-> FALSE, AESKey |-> PyNone ]

\* serverDecrypt assigning self.AESKey last, when the payload is verified.
serverDecrypt_StoreOnSuccess(PrivateKey_, encryptedPostData, g) ==
    IF /\ Truthy(encryptedPostData) /\ IsDict(encryptedPostData)
       /\ HasKey(encryptedPostData[2], K_key)
       /\ HasKey(encryptedPostData[2], K_value)
    THEN LET recovered == RSADecrypt(PrivateKey_, Get(encryptedPostData[2], K_key))
         IN  IF recovered.st # "ok"
             THEN [ out |-> recovered, assigns |-> FALSE, AESKey |-> PyNone ]
             ELSE LET opened == OpenPayload(AESDecrypt(recovered.val,
                                    Get(encryptedPostData[2], K_value), g))
                  IN  [ out |-> opened, assigns |-> opened.st = "ok",
                        AESKey |-> recovered.val ]
    ELSE [ out |-> Raise("TypeError"), assigns |-> FALSE, AESKey |-> PyNone ]

\* serverDecrypt(encryptedPostData): what it returns or raises, and what it
\* assigns to self.AESKey on the way (line 396), if it gets there.
serverDecrypt(PrivateKey_, encryptedPostData, g) ==
    IF /\ Truthy(encryptedPostData) /\ IsDict(encryptedPostData)
       /\ HasKey(encryptedPostData[2], K_key)
       /\ HasKey(encryptedPostData[2], K_value)
    THEN LET recovered == RSADecrypt(PrivateKey_, Get(encryptedPostData[2], K_key))
         IN  IF recovered.st # "ok"
             THEN [ out |-> recovered, assigns |-> FALSE, AESKey |-> PyNone ]
             ELSE [ out |-> OpenPayload(AESDecrypt(recovered.val,
                                Get(encryptedPostData[2], K_value), g)),
                    assigns |-> TRUE, AESKey |-> recovered.val ]
    ELSE [ out |-> Raise("TypeError"), assigns |-> FALSE, AESKey |-> PyNone ]

\* serverEncrypt(resp, signIndex) on a server whose AESKey field is AESKey
serverEncrypt(AESKey, resp_, signIndex, now) ==
    IF ~Truthy(AESKey) THEN Raise("ValueError")
    ELSE IF ~(Truthy(resp_) /\ IsDict(resp_)) THEN Raise("TypeError")
    ELSE LET sealed == SealPayload(AESKey, resp_, signIndex, now) IN
         IF sealed.st # "ok" THEN sealed
         ELSE Ok(PyDict(<< << K_data, sealed.val >> >>))

(***************************************************************************)
(* The environment: the instances, what callers pass, and what a forger    *)
(* who knows the public key (and, for some forgeries, the ephemeral key)   *)
(* puts on the wire in place of an envelope.                               *)
(***************************************************************************)

Clients == { "A", "B" }

\* The keys genAesKey makes of the random blocks it may read.
ClientKeys == { GenAesKey(r) : r \in { << "r", "1" >>, << "r", "2" >> } }

\* The clock readings of get_current_timestamp.
MaxClock == 1

KeyPair == "kp1"

K_a == << "a" >>
K_b == << "b" >>

P_empty == PyDict(<< >>)
P_a == PyDict(<< << K_a, PyInt(1) >> >>)
P_ba == PyDict(<< << K_b, PyStr(<< "x", "\"", "\n" >>) >>, << K_a, PyNone >> >>)

\* What a caller passes as the mapping: an empty one, one field, two fields
\* of other types (a str with a quote and a line feed in it), no mapping.
Payloads == { P_empty, P_a, P_ba, PyInt(1) }

\* The signIndex arguments: all fields, no signature, "a", and "b, a".
SignIndexes ==
    { PyNone, PyFalse, PyStr(K_a), PyStr(<< "b", ",", " ", "a" >>) }

\* What the server answers with when it does not answer with the request's
\* own mapping.
R_ok == PyDict(<< << K_a, PyStr(<< "o", "k" >>) >> >>)

OwnReplies == { R_ok, P_empty }

\* A key the forger made with genAesKey.
ForgerKey == GenAesKey(<< "r", "0" >>)

\* The document in a ciphertext, and a document sealed again under its key.
DocOf(ct) == JsonLoads(PyStr(StripControl(ct[2].pt))).val

Reseal(key, doc) == AESEncrypt(key, PyStr(JsonDumps(doc, TRUE, FALSE))).val

SignatureOf(ct) == Get(Get(DocOf(ct)[2], K_meta)[2], K_Signature)

\* The same ciphertext with another Signature in its metadata.
WithSignature(ct, sig) ==
    LET doc == DocOf(ct)
        meta == Get(doc[2], K_meta)
    IN  Reseal(PyStr(ct[2].key),
               PyDict(Put(doc[2], K_meta, PyDict(Put(meta[2], K_Signature, sig)))))

ForgedSignatures == { PyNone, PyStr(<< "0" >>), Md5(<< "x" >>) }

\* No envelope at all: not a mapping, or a mapping with no field.
NoEnvelopes == { PyNone, PyStr(<< "x" >>), P_empty }

\* Envelope e with the Signature of the document in field f replaced by
\* another value, the rest as it was and under the same key.
SignatureReplaced(e, f) ==
    LET ct == Get(e[2], f) IN
    { PyDict(Put(e[2], f, WithSignature(ct, sig))) :
        sig \in ForgedSignatures \ { SignatureOf(ct) } }

\* The request envelopes a forger makes of envelope e.
ForgedRequests(e) ==
    SignatureReplaced(e, K_value)
    \cup NoEnvelopes
    \cup { PyDict(Without(e[2], K_key)), PyDict(Without(e[2], K_value)) }
    \cup { PyDict(Put(e[2], K_key, k)) :
             k \in { RSAEncrypt(PublicKey(KeyPair, "pkcs8"), ForgerKey).val,
                     RSAEncrypt(PublicKey(KeyPair, "pkcs8"),
                                PyStr(<< "k", "k", "k", "k", "k" >>)).val,
                     PyStr(<< "x" >>) } }

\* The response envelopes a forger makes of envelope e.
ForgedResponses(e) ==
    LET ct == Get(e[2], K_data) IN
    SignatureReplaced(e, K_data)
    \cup NoEnvelopes
    \cup { PyDict(<< << K_value, ct >> >>) }
    \cup { PyDict(Put(e[2], K_data, Reseal(ForgerKey, DocOf(ct)))) }

(***************************************************************************)
(* The system: client instances and one server instance, all of one key    *)
(* pair.  Each client runs one exchange at a time; the slots req, got,     *)
(* resp and back hold the four calls of the exchange in progress, each     *)
(* with its argument and with what it returned or raised.                  *)
(***************************************************************************)

VARIABLES
    cAESKey,       \* client -> self.AESKey of the client instance
    cPublicKey,    \* client -> self.PublicKey of the client instance
    sPrivateKey,   \* self.PrivateKey of the server instance
    sAESKey,       \* self.AESKey of the server instance
    req,           \* client -> its clientEncrypt call
    got,           \* client -> the serverDecrypt call on its request
    resp,          \* client -> the serverEncrypt call that answers it
    back,          \* client -> its clientDecrypt call
    lastKeyField,  \* the `key` field the server last decrypted, or None
    probe          \* the calls made of one function on its own, oldest first

vars == << cAESKey, cPublicKey, sPrivateKey, sAESKey,
           req, got, resp, back, lastKeyField, probe >>

NotCalled == [ st |-> "none", val |-> PyNone, arg |-> PyNone ]

Call(arg, out) == [ st |-> out.st, val |-> out.val, arg |-> arg ]

Called(call) == call.st # "none"

Returned(call) == call.st = "ok"

Raised(call) == call.st \notin { "none", "ok" }

\* EncryptedCommunicationClient.__init__ for every client, and
\* EncryptedCommunicationServer.__init__
Init ==
    /\ cAESKey \in [ Clients -> ClientKeys ]
    /\ cPublicKey = [ c \in Clients |->
                        PublicKey(KeyPair, IF c = "A" THEN "pkcs8" ELSE "pkcs1") ]
    /\ sPrivateKey = PrivateKey(KeyPair)
    /\ sAESKey = PyNone
    /\ req = [ c \in Clients |-> NotCalled ]
    /\ got = [ c \in Clients |-> NotCalled ]
    /\ resp = [ c \in Clients |-> NotCalled ]
    /\ back = [ c \in Clients |-> NotCalled ]
    /\ lastKeyField = PyNone
    /\ probe = << >>

\* clientEncrypt on a client that makes itself a new key for every request.
ClientEncrypt_Rekey(c, posts, indexes) ==
    /\ ~Called(req[c])
    /\ \E post_ \in posts, signIndex \in indexes, now \in 1..MaxClock,
          key \in ClientKeys :
         /\ cAESKey' = [ cAESKey EXCEPT ![c] = key ]
         /\ req' = [ req EXCEPT ![c] =
                      Call(<< post_, signIndex >>,
                           clientEncrypt(key, cPublicKey[c],
                                         post_, signIndex, now)) ]
    /\ UNCHANGED << cPublicKey, sPrivateKey, sAESKey,
                    got, resp, back, lastKeyField, probe >>

\* Client c calls clientEncrypt(post, signIndex).
ClientEncrypt(c, posts, indexes) ==
    /\ ~Called(req[c])
    /\ \E post_ \in posts, signIndex \in indexes, now \in 1..MaxClock :
         req' = [ req EXCEPT ![c] =
                    Call(<< post_, signIndex >>,
                         clientEncrypt(cAESKey[c], cPublicKey[c],
                                       post_, signIndex, now)) ]
    /\ UNCHANGED << cAESKey, cPublicKey, sPrivateKey, sAESKey,
                    got, resp, back, lastKeyField, probe >>

\* What reaches the server in place of request envelope e.
RequestsOnWire(e, forger) == IF forger THEN { e } \cup ForgedRequests(e) ELSE { e }

\* The envelopes serverDecrypt gets a key out of: those that pass the test of
\* lines 392-394 and whose `key` field the private key decrypts.
Recoverable(PrivateKey_, e) ==
    /\ Truthy(e) /\ IsDict(e)
    /\ HasKey(e[2], K_key) /\ HasKey(e[2], K_value)
    /\ RSADecrypt(PrivateKey_, Get(e[2], K_key)).st = "ok"

\* serverDecrypt keeping the key it has, once it has one.
ServerDecrypt_KeepFirst(c, forger) ==
    /\ Returned(req[c])
    /\ ~Called(got[c])
    /\ \E e \in RequestsOnWire(req[c].val, forger), g \in Garbles :
         LET r == serverDecrypt(sPrivateKey, e, g) IN
         /\ got' = [ got EXCEPT ![c] = Call(e, r.out) ]
         /\ sAESKey' = IF r.assigns /\ sAESKey = PyNone THEN r.AESKey ELSE sAESKey
         /\ lastKeyField' = IF Recoverable(sPrivateKey, e)
                            THEN Get(e[2], K_key) ELSE lastKeyField
    /\ UNCHANGED << cAESKey, cPublicKey, sPrivateKey, req, resp, back, probe >>

\* The server calls serverDecrypt on what arrived as the request of c.
ServerDecrypt(c, forger) ==
    /\ Returned(req[c])
    /\ ~Called(got[c])
    /\ \E e \in RequestsOnWire(req[c].val, forger), g \in Garbles :
         LET r == serverDecrypt(sPrivateKey, e, g) IN
         /\ got' = [ got EXCEPT ![c] = Call(e, r.out) ]
         /\ sAESKey' = IF r.assigns THEN r.AESKey ELSE sAESKey
         /\ lastKeyField' = IF Recoverable(sPrivateKey, e)
                            THEN Get(e[2], K_key) ELSE lastKeyField
    /\ UNCHANGED << cAESKey, cPublicKey, sPrivateKey, req, resp, back, probe >>

\* What the server may answer c with: the mapping it got from c, or its own.
Replies(c, own) == own \cup (IF Returned(got[c]) THEN { got[c].val } ELSE { })

\* serverEncrypt on a server that forgets the key once it has answered.
ServerEncrypt_OneShot(c, own, indexes) ==
    /\ ~Called(resp[c])
    /\ \E resp_ \in Replies(c, own), signIndex \in indexes, now \in 1..MaxClock :
         resp' = [ resp EXCEPT ![c] =
                     Call(<< resp_, signIndex >>,
                          serverEncrypt(sAESKey, resp_, signIndex, now)) ]
    /\ sAESKey' = IF Returned(resp'[c]) THEN PyNone ELSE sAESKey
    /\ UNCHANGED << cAESKey, cPublicKey, sPrivateKey,
                    req, got, back, lastKeyField, probe >>

\* The server calls serverEncrypt(resp, signIndex) to answer c.
ServerEncrypt(c, own, indexes) ==
    /\ ~Called(resp[c])
    /\ \E resp_ \in Replies(c, own), signIndex \in indexes, now \in 1..MaxClock :
         resp' = [ resp EXCEPT ![c] =
                     Call(<< resp_, signIndex >>,
                          serverEncrypt(sAESKey, resp_, signIndex, now)) ]
    /\ UNCHANGED << cAESKey, cPublicKey, sPrivateKey, sAESKey,
                    req, got, back, lastKeyField, probe >>

\* What reaches c in place of the response: with a forger on the wire, also
\* something when the server built no envelope.
ResponsesOnWire(c, forger) ==
    IF Returned(resp[c])
    THEN { resp[c].val } \cup (IF forger THEN ForgedResponses(resp[c].val) ELSE { })
    ELSE IF forger THEN NoEnvelopes ELSE { }

\* Client c calls clientDecrypt on what arrived as the response.
ClientDecrypt(c, forger) ==
    /\ Called(req[c])
    /\ ~Called(back[c])
    /\ \E e \in ResponsesOnWire(c, forger), g \in Garbles :
         back' = [ back EXCEPT ![c] =
                     Call(e, clientDecrypt(cAESKey[c], e, g)) ]
    /\ UNCHANGED << cAESKey, cPublicKey, sPrivateKey, sAESKey,
                    req, got, resp, lastKeyField, probe >>

\* Client c and the server are done with this exchange; the instances live on.
NextExchange(c) ==
    /\ Called(req[c])
    /\ req' = [ req EXCEPT ![c] = NotCalled ]
    /\ got' = [ got EXCEPT ![c] = NotCalled ]
    /\ resp' = [ resp EXCEPT ![c] = NotCalled ]
    /\ back' = [ back EXCEPT ![c] = NotCalled ]
    /\ UNCHANGED << cAESKey, cPublicKey, sPrivateKey, sAESKey, lastKeyField,
                    probe >>

\* Only client A is in use; B is an instance nobody calls.
InitOne == Init /\ cAESKey["B"] = GenAesKey(<< "r", "2" >>)

\* The instances are there and nobody calls them.
InitIdle == InitOne /\ cAESKey["A"] = GenAesKey(<< "r", "1" >>)

\* One client, any argument, every envelope delivered as it was built.
Next ==
    \/ ClientEncrypt("A", Payloads, SignIndexes)
    \/ ServerDecrypt("A", FALSE)
    \/ ServerEncrypt("A", OwnReplies, SignIndexes)
    \/ ClientDecrypt("A", FALSE)
    \/ NextExchange("A")

Spec == InitOne /\ [][Next]_vars

\* One client and a forger on the wire.
NextWire ==
    \/ ClientEncrypt("A", { P_ba, P_empty }, { PyNone, PyFalse })
    \/ ServerDecrypt("A", TRUE)
    \/ ServerEncrypt("A", { P_a }, { PyNone, PyFalse })
    \/ ClientDecrypt("A", TRUE)
    \/ NextExchange("A")

SpecWire == InitOne /\ [][NextWire]_vars

\* Two clients on the one server instance, every envelope delivered as built.
NextPair ==
    \E c \in Clients :
        \/ ClientEncrypt(c, { P_a }, { PyNone })
        \/ ServerDecrypt(c, FALSE)
        \/ ServerEncrypt(c, { R_ok }, { PyNone })
        \/ ClientDecrypt(c, FALSE)
        \/ NextExchange(c)

SpecPair == Init /\ [][NextPair]_vars

(***************************************************************************)
(* One client and a peer who holds the ephemeral key: what arrives may be  *)
(* a document of the peer's making, sealed under the key of the envelope.  *)
(***************************************************************************)

\* The documents made of document doc: field a set to 7, every payload
\* field dropped, __meta__ dropped, and a SignatureIndex naming a field c
\* that the payloads here do not have.
InsideDocuments(doc) ==
    LET meta == Get(doc[2], K_meta) IN
    { PyDict(Put(doc[2], K_a, PyInt(7))),
      PyDict(<< << K_meta, meta >> >>),
      PyDict(Without(doc[2], K_meta)),
      PyDict(Put(doc[2], K_meta,
                 PyDict(Put(meta[2], K_SignatureIndex, PyStr(<< "c" >>))))) }

\* Envelope e with one of these documents in field f, under the same key.
InsideEnvelopes(e, f) ==
    LET ct == Get(e[2], f) IN
    { PyDict(Put(e[2], f, Reseal(PyStr(ct[2].key), doc))) :
        doc \in InsideDocuments(DocOf(ct)) }

\* The requests that arrive in place of e: e, one of these, or e with a
\* `key` field that wraps another key.
InsideRequests(e) ==
    { e } \cup InsideEnvelopes(e, K_value)
    \cup { PyDict(Put(e[2], K_key,
                      RSAEncrypt(PublicKey(KeyPair, "pkcs8"), ForgerKey).val)) }

\* The server calls serverDecrypt on what arrived as the request of c.
InsideServerDecrypt(c) ==
    /\ Returned(req[c])
    /\ ~Called(got[c])
    /\ \E e \in InsideRequests(req[c].val), g \in Garbles :
         LET r == serverDecrypt(sPrivateKey, e, g) IN
         /\ got' = [ got EXCEPT ![c] = Call(e, r.out) ]
         /\ sAESKey' = IF r.assigns THEN r.AESKey ELSE sAESKey
         /\ lastKeyField' = IF Recoverable(sPrivateKey, e)
                            THEN Get(e[2], K_key) ELSE lastKeyField
    /\ UNCHANGED << cAESKey, cPublicKey, sPrivateKey, req, resp, back, probe >>

\* Client c calls clientDecrypt on what arrived as the response.
InsideClientDecrypt(c) ==
    /\ Returned(resp[c])
    /\ ~Called(back[c])
    /\ \E e \in { resp[c].val } \cup InsideEnvelopes(resp[c].val, K_data),
          g \in Garbles :
         back' = [ back EXCEPT ![c] =
                     Call(e, clientDecrypt(cAESKey[c], e, g)) ]
    /\ UNCHANGED << cAESKey, cPublicKey, sPrivateKey, sAESKey,
                    req, got, resp, lastKeyField, probe >>

\* The client signs all fields, none, or by a field c its payload lacks; the
\* server signs all, none, or by field b, which its own reply lacks.
NextInside ==
    \/ ClientEncrypt("A", { P_ba }, { PyNone, PyFalse, PyStr(<< "c" >>) })
    \/ InsideServerDecrypt("A")
    \/ ServerEncrypt("A", { P_a }, { PyNone, PyFalse, PyStr(K_b) })
    \/ InsideClientDecrypt("A")
    \/ NextExchange("A")

\* The exchanges of one client, each of whose messages may be remade.
SpecInside == InitIdle /\ [][NextInside]_vars

(***************************************************************************)
(* sign on its own: two calls, the second with the same SignatureIndex.    *)
(***************************************************************************)

instances == << cAESKey, cPublicKey, sPrivateKey, sAESKey,
                req, got, resp, back, lastKeyField >>

K_c == << "c" >>

\* The fields a payload is made of; a comes with two values.
Fields ==
    { << K_a, PyInt(1) >>, << K_a, PyInt(2) >>,
      << K_b, PyStr(<< "x" >>) >>, << K_c, PyNone >> }

\* The mappings over these fields in every construction order.
OrderedPayloads ==
    { PyDict(s) :
        s \in { t \in UNION { [ 1..n -> Fields ] : n \in 0..Cardinality({ f[1] : f \in Fields }) } :
                  \A i, j \in DOMAIN t : i # j => t[i][1] # t[j][1] } }

Reverse(s) == [ i \in 1..Len(s) |-> s[Len(s) + 1 - i] ]

\* The clock readings of the calls of sign on its own.
MaxStamp == 2

\* The metadata of lines 338 and 423 in two iteration orders.
OrderedMetaData ==
    UNION { { MetaData(now, signIndex), PyDict(Reverse(MetaData(now, signIndex)[2])) } :
              now \in 1..MaxStamp, signIndex \in SignIndexes }

\* sign(parameters, meta), the metadata as lines 338 and 423 build it
Sign ==
    /\ probe = << >>
    /\ \E parameters \in OrderedPayloads, now \in 1..MaxStamp, signIndex \in SignIndexes :
         LET meta == MetaData(now, signIndex) IN
         probe' = << Call(<< parameters, meta >>, sign(parameters, meta)) >>
    /\ UNCHANGED instances

\* sign again, with metadata of the same SignatureIndex.
SignAgain ==
    /\ Len(probe) = 1
    /\ \E parameters \in OrderedPayloads, meta \in OrderedMetaData :
         /\ Get(meta[2], K_SignatureIndex) = Get(probe[1].arg[2][2], K_SignatureIndex)
         /\ probe' = Append(probe,
                Call(<< parameters, meta >>, sign(parameters, meta)))
    /\ UNCHANGED instances

NextSign == Sign \/ SignAgain

SpecSign == InitIdle /\ [][NextSign]_vars

(***************************************************************************)
(* sign on payloads that have a field named like a metadata field, with    *)
(* the string it digests: two calls, the second with the same metadata.    *)
(***************************************************************************)


\* The fields of these payloads: "a", "a " and Timestamp, which the metadata
\* has too and which comes with two values here.
CanonFields ==
    { << K_a, PyInt(1) >>, << << "a", " " >>, PyInt(2) >>,
      << K_Timestamp, PyInt(0) >>, << K_Timestamp, PyStr(<< "x" >>) >> }

\* The mappings over these fields in every construction order.
CanonPayloads ==
    { PyDict(s) :
        s \in { t \in UNION { [ 1..n -> CanonFields ] : n \in 0..3 } :
                  \A i, j \in DOMAIN t : i # j => t[i][1] # t[j][1] } }

\* The metadata: that of lines 338 and 423 for all fields, for no signature
\* and for "Timestamp,a", and the default of line 260, the empty mapping.
CanonMetaData ==
    { MetaData(now, signIndex) :
        now \in 1..MaxStamp,
        signIndex \in { PyNone, PyFalse,
                        PyStr(K_Timestamp \o << "," >> \o K_a) } }
    \cup { P_empty }

\* canonicalizedQueryString when sign gets to line 293, None when it does not.
SigningString(parameters, meta) ==
    IF sign(parameters, meta).st = "ok" /\ sign(parameters, meta).val # PyNone
    THEN PyStr(CanonicalizedQueryString(SortByKey(SignedData(parameters[2], meta[2]))))
    ELSE PyNone

\* sign(parameters, meta)
Canon ==
    /\ probe = << >>
    /\ \E parameters \in CanonPayloads, meta \in CanonMetaData :
         probe' = << Call(<< parameters, meta, SigningString(parameters, meta) >>,
                          sign(parameters, meta)) >>
    /\ UNCHANGED instances

\* sign again, another payload with the metadata of the first call.
CanonAgain ==
    /\ Len(probe) = 1
    /\ \E parameters \in CanonPayloads :
         LET meta == probe[1].arg[2] IN
         probe' = Append(probe,
             Call(<< parameters, meta, SigningString(parameters, meta) >>,
                  sign(parameters, meta)))
    /\ UNCHANGED instances

NextCanon == Canon \/ CanonAgain

SpecCanon == InitIdle /\ [][NextCanon]_vars

(***************************************************************************)
(* _percent_encode on its own.                                             *)
(***************************************************************************)

\* The longest text encoded.
MaxEncodeLen == 3

\* The texts encoded: those of "*", "~", "+", the space and a letter.
EncodeTexts ==
    UNION { [ 1..n -> { "*", "~", "+", " ", "a" } ] : n \in 0..MaxEncodeLen }

\* _percent_encode(encodeStr)
Encode ==
    /\ probe = << >>
    /\ \E encodeStr \in EncodeTexts :
         probe' = << Call(PyStr(encodeStr),
                          Ok(PyStr(percent_encode(PyStr(encodeStr))))) >>
    /\ UNCHANGED instances

SpecEncode == InitIdle /\ [][Encode]_vars

(***************************************************************************)
(* The mappings as objects: objs is the sequence of the dicts there are,   *)
(* a reference is an index into it, and an assignment to a key changes the *)
(* dict at a reference for everyone who holds that reference.              *)
(***************************************************************************)

\* copy.deepcopy handing back the object it was given.
deepcopy_SameObject(objs, ref) == [ objs |-> objs, ref |-> ref ]

\* copy.deepcopy(ref): a new dict with the items of the one at ref.
deepcopy(objs, ref) == [ objs |-> Append(objs, objs[ref]), ref |-> Len(objs) + 1 ]

\* for k in signIndex: data[k] = parameters[k] (lines 279-280)
RECURSIVE SelectObjects(_, _, _, _)
SelectObjects(objs, data, parameters, signIndex) ==
    IF signIndex = << >> THEN [ objs |-> objs, out |-> Ok(PyNone) ]
    ELSE IF ~HasKey(objs[parameters], Head(signIndex))
    THEN [ objs |-> objs, out |-> Raise("KeyError") ]
    ELSE SelectObjects(
             [ objs EXCEPT ![data] = Put(@, Head(signIndex),
                                         Get(objs[parameters], Head(signIndex))) ],
             data, parameters, Tail(signIndex))

\* sign from line 283 on: data takes the items of meta, is sorted, joined
\* and digested.
DigestObjects(objs, data, meta) ==
    LET merged == [ objs EXCEPT ![data] = Update(@, objs[meta]) ] IN
    [ objs |-> merged,
      out |-> Ok(Md5(CanonicalizedQueryString(SortByKey(merged[data])))) ]

\* sign(parameters, meta) on references to two dicts
signObjects(objs, parameters, meta) ==
    LET signIndex == IF HasKey(objs[meta], K_SignatureIndex)
                     THEN Get(objs[meta], K_SignatureIndex) ELSE PyNone
    IN  IF signIndex = PyFalse THEN [ objs |-> objs, out |-> Ok(PyNone) ]
        ELSE IF Truthy(signIndex) /\ IsStr(signIndex)
        THEN LET selected == SelectObjects(Append(objs, << >>), Len(objs) + 1,
                                           parameters, conversionComma(signIndex))
             IN  IF selected.out.st # "ok" THEN selected
                 ELSE DigestObjects(selected.objs, Len(objs) + 1, meta)
        ELSE LET data == deepcopy(objs, parameters) IN
             DigestObjects(data.objs, data.ref, meta)

\* Lines 334-344 and 422-426 on a reference to the caller's dict: copy it,
\* make metaData, sign the copy, put Signature into metaData and metaData
\* into the copy, serialize the copy and encrypt it.
SealObjects(objs, mapping, AESKey, signIndex, now) ==
    LET copy == deepcopy(objs, mapping)
        metaData == Len(copy.objs) + 1
        signed == signObjects(Append(copy.objs, MetaData(now, signIndex)[2]),
                              copy.ref, metaData)
    IN  IF signed.out.st # "ok" THEN signed
        ELSE LET withSig == [ signed.objs EXCEPT ![metaData] =
                                Put(@, K_Signature, signed.out.val) ]
                 withMeta == [ withSig EXCEPT ![copy.ref] =
                                 Put(@, K_meta, PyDict(withSig[metaData])) ]
             IN  [ objs |-> withMeta,
                   out |-> AESEncrypt(AESKey,
                               PyStr(JsonDumps(PyDict(withMeta[copy.ref]),
                                               TRUE, FALSE))) ]

\* A caller holding one dict calls clientEncrypt(post, signIndex) on a
\* client, or serverEncrypt(resp, signIndex) on a server with or without a
\* key; recorded are the caller's dict after the call and all the dicts.
EncryptObjects ==
    /\ probe = << >>
    /\ \E method \in { "clientEncrypt", "serverEncrypt" },
          mapping \in CanonPayloads,
          signIndex \in { PyNone, PyFalse, PyStr(K_a),
                          PyStr(K_Timestamp \o << "," >> \o K_a) },
          now \in 1..MaxStamp :
       \E AESKey \in IF method = "clientEncrypt" THEN { cAESKey["A"] }
                      ELSE { PyNone, cAESKey["A"] } :
         LET r == IF method = "serverEncrypt" /\ ~Truthy(AESKey)
                  THEN [ objs |-> << mapping[2] >>, out |-> Raise("ValueError") ]
                  ELSE IF ~Truthy(mapping)
                  THEN [ objs |-> << mapping[2] >>, out |-> Raise("TypeError") ]
                  ELSE SealObjects(<< mapping[2] >>, 1, AESKey, signIndex, now)
             envelope ==
                  IF r.out.st # "ok" THEN r.out
                  ELSE IF method = "serverEncrypt"
                  THEN Ok(PyDict(<< << K_data, r.out.val >> >>))
                  ELSE Ok(PyDict(<< << K_key,
                                       RSAEncrypt(cPublicKey["A"], AESKey).val >>,
                                    << K_value, r.out.val >> >>))
         IN  probe' = << Call(<< method, mapping, << AESKey, signIndex, now >>,
                                 PyDict(r.objs[1]), r.objs >>, envelope) >>
    /\ UNCHANGED instances

\* A caller holding a payload dict and a metadata dict calls sign.
SignObjects ==
    /\ probe = << >>
    /\ \E parameters \in CanonPayloads, meta \in CanonMetaData :
         LET r == signObjects(<< parameters[2], meta[2] >>, 1, 2) IN
         probe' = << Call(<< "sign", parameters, meta,
                             PyDict(r.objs[1]), r.objs >>, r.out) >>
    /\ UNCHANGED instances

NextObjects == EncryptObjects \/ SignObjects

SpecObjects == InitIdle /\ [][NextObjects]_vars

(***************************************************************************)
(* AESEncrypt and AESDecrypt on their own.                                 *)
(***************************************************************************)

\* The longest key tried.
MaxKeyLen == 48

KeyOfLen(n) == PyStr([ i \in 1..n |-> "k" ])

\* The key arguments: a str of every length, and two that are no str.
AESKeys == { KeyOfLen(n) : n \in 0..MaxKeyLen } \cup { PyNone, PyInt(16) }

Plaintexts == { PyStr(<< "h", "i" >>), PyStr(<< >>), PyNone }

\* Ciphertexts of "hi" under the keys AES takes, and two that are none.
Ciphertexts ==
    { AESEncrypt(KeyOfLen(n), PyStr(<< "h", "i" >>)).val : n \in { 16, 32 } }
    \cup { PyStr(<< >>), PyNone }

\* AESEncrypt(key, plaintext)
Encrypt ==
    /\ probe = << >>
    /\ \E key \in AESKeys, plaintext \in Plaintexts :
         probe' = << Call(<< "AESEncrypt", key, plaintext >>,
                          AESEncrypt(key, plaintext)) >>
    /\ UNCHANGED instances

\* AESDecrypt(key, ciphertext), and what the cipher's bytes were if the key
\* was not the ciphertext's.
Decrypt ==
    /\ probe = << >>
    /\ \E key \in AESKeys, ciphertext \in Ciphertexts, g \in Garbles :
         probe' = << Call(<< "AESDecrypt", key, ciphertext, g >>,
                          AESDecrypt(key, ciphertext, g)) >>
    /\ UNCHANGED instances

NextAES == Encrypt \/ Decrypt

SpecAES == InitIdle /\ [][NextAES]_vars

(***************************************************************************)
(* The claims                                                              *)
(***************************************************************************)

\* Field f of envelope e is a ciphertext made with AES key k.
UnderKey(e, f, k) ==
    /\ IsDict(e) /\ HasKey(e[2], f) /\ IsStr(k)
    /\ Get(e[2], f)[1] = "b64"
    /\ Get(e[2], f)[2].alg = "aes"
    /\ Get(e[2], f)[2].key = k[2]

\* The mapping m is P again: the same fields, and no __meta__ among them.
SameMapping(m, P) == IsDict(m) /\ DictEq(m[2], P[2]) /\ ~HasKey(m[2], K_meta)

\* The server answered c with the mapping it got from c, signIndex defaulted.
Echoed(c) == Returned(got[c]) /\ resp[c].arg = << got[c].val, PyNone >>

\* The four steps on the payload of c's clientEncrypt call, as far as they
\* have been made: none raises, serverDecrypt and clientDecrypt return P.
RoundTrip(c) ==
    LET P == req[c].arg[1] IN
    /\ Returned(req[c])
    /\ Called(got[c]) /\ got[c].arg = req[c].val
         => Returned(got[c]) /\ SameMapping(got[c].val, P)
    /\ Echoed(c) => Returned(resp[c])
    /\ Echoed(c) /\ Called(back[c]) /\ back[c].arg = resp[c].val
         => Returned(back[c]) /\ SameMapping(back[c].val, P)

\* C1 as stated: for ANY payload mapping P, with one client and one server
\* of one key pair, clientEncrypt(P), serverDecrypt of its envelope,
\* serverEncrypt of the mapping returned and clientDecrypt of that envelope
\* raise nothing, and serverDecrypt and clientDecrypt return P without the
\* __meta__ field.
C1_RoundTripAnyMapping ==
    \A c \in Clients :
        Called(req[c]) /\ IsDict(req[c].arg[1]) /\ req[c].arg[2] = PyNone
            => RoundTrip(c)

\* C1, amended: the same round trip for any NON-EMPTY payload mapping P
\* (clientEncrypt raises TypeError on the empty mapping).
C1_RoundTrip ==
    \A c \in Clients :
        /\ Called(req[c]) /\ IsDict(req[c].arg[1]) /\ Truthy(req[c].arg[1])
        /\ req[c].arg[2] = PyNone
        => RoundTrip(c)

\* The four steps have been made on the two-field payload and client A has
\* its mapping back.
C1_Witness ==
    /\ req["A"].arg = << P_ba, PyNone >>
    /\ Echoed("A")
    /\ Returned(back["A"])
    /\ back["A"].arg = resp["A"].val
    /\ Keys(back["A"].val[2]) = { K_a, K_b }

\* The hazard: both requests processed, B's last, the two keys different.
Overwritten ==
    /\ Returned(got["A"]) /\ Returned(got["B"])
    /\ lastKeyField = Get(req["B"].val[2], K_key)
    /\ cAESKey["A"] # cAESKey["B"]

\* C2: with clients A and B holding different keys, when the server has
\* processed A's request and then B's, serverEncrypt of the reply meant for A
\* returns an envelope encrypted under B's key, and A's clientDecrypt of that
\* envelope does not return the reply payload (it raises).
C2_SharedSlotHazard ==
    /\ [][ resp'["A"] # resp["A"] /\ Called(resp'["A"]) /\ Overwritten
           => Returned(resp'["A"]) /\ UnderKey(resp'["A"].val, K_data, cAESKey["B"])
       ]_vars
    /\ [](/\ Returned(resp["A"]) /\ cAESKey["A"] # cAESKey["B"]
          /\ UnderKey(resp["A"].val, K_data, cAESKey["B"])
          /\ Called(back["A"]) /\ back["A"].arg = resp["A"].val
          => Raised(back["A"]))

\* The interleaving has happened: A's request was processed, the reply to A
\* is under B's key, and A's clientDecrypt of it raised.
C2_Witness ==
    /\ Returned(got["A"]) /\ Returned(got["B"])
    /\ cAESKey["A"] # cAESKey["B"]
    /\ Returned(resp["A"])
    /\ UnderKey(resp["A"].val, K_data, cAESKey["B"])
    /\ back["A"].arg = resp["A"].val
    /\ Raised(back["A"])

\* The names a signIndex argument selects are all fields of the mapping.
IndexNamesPresent(mapping, signIndex) ==
    IsStr(signIndex) =>
        \A name \in { conversionComma(signIndex)[i] :
                        i \in 1..Len(conversionComma(signIndex)) } :
            HasKey(mapping[2], name)

\* A valid payload mapping for serverEncrypt: a non-empty mapping, the
\* signIndex naming no field it lacks.
ValidReply(arg) ==
    /\ IsDict(arg[1]) /\ Truthy(arg[1])
    /\ IndexNamesPresent(arg[1], arg[2])

\* C3: a serverEncrypt call made while no key is stored raises ValueError,
\* returns no envelope and leaves the slot empty; once a serverDecrypt has
\* stored a key, serverEncrypt of a valid payload mapping returns a {data}
\* envelope encrypted under the stored key.
C3_BuildResponseOrdering ==
    [][ \A c \in Clients :
          resp'[c] # resp[c] /\ Called(resp'[c]) =>
            IF sAESKey = PyNone
            THEN /\ resp'[c].st = "ValueError"
                 /\ resp'[c].val = PyNone
                 /\ sAESKey' = PyNone
            ELSE ValidReply(resp'[c].arg) =>
                    /\ Returned(resp'[c])
                    /\ Keys(resp'[c].val[2]) = { K_data }
                    /\ UnderKey(resp'[c].val, K_data, sAESKey)
      ]_vars

\* The key the server's private key recovers from a `key` field.
RecoveredFrom(keyField) == RSADecrypt(sPrivateKey, keyField).val

\* C4: the stored key is empty if no request has been processed and otherwise
\* is the key recovered from the most recently processed request (the key of
\* the client whose request it was); serverEncrypt never changes the stored
\* key, and no operation changes the private key.
C4_KeySlot ==
    /\ [](sAESKey = IF lastKeyField = PyNone THEN PyNone
                    ELSE RecoveredFrom(lastKeyField))
    /\ [](\A c \in Clients :
            Called(got[c]) /\ lastKeyField = Get(got[c].arg[2], K_key)
                => sAESKey = cAESKey[c])
    /\ [][ /\ sPrivateKey' = sPrivateKey
           /\ resp' # resp => sAESKey' = sAESKey ]_vars

\* Both requests have been processed, B's last, both have been answered, and
\* the slot holds B's key, which is not A's.
C4_Witness ==
    /\ Returned(got["A"]) /\ Returned(got["B"])
    /\ Called(resp["A"]) /\ Called(resp["B"])
    /\ cAESKey["A"] # cAESKey["B"]
    /\ lastKeyField = Get(got["B"].arg[2], K_key)
    /\ sAESKey = cAESKey["B"]

\* C5: the client's key is the one of construction after every clientEncrypt
\* and clientDecrypt call, failed or not; every request envelope wraps that
\* key in `key` and encrypts `value` under it, and clientDecrypt decrypts
\* with it (it returns a payload only from an envelope made with that key).
C5_ClientKeyStable ==
    /\ [][ cAESKey' = cAESKey ]_vars
    /\ [](\A c \in Clients :
            Returned(req[c]) =>
                /\ RecoveredFrom(Get(req[c].val[2], K_key)) = cAESKey[c]
                /\ UnderKey(req[c].val, K_value, cAESKey[c]))
    /\ [](\A c \in Clients :
            Returned(back[c]) => UnderKey(back[c].arg, K_data, cAESKey[c]))

\* A later exchange of client A (the server holds A's key of an earlier one
\* and has not seen this request): the request is built and a clientDecrypt
\* call has failed.
C5_Witness ==
    /\ Returned(req["A"]) /\ ~Called(got["A"])
    /\ sAESKey = cAESKey["A"]
    /\ Raised(back["A"])

\* C6: when the Signature in the document of an envelope built by
\* clientEncrypt or serverEncrypt is replaced by a different value (the rest
\* unchanged, under the right key), serverDecrypt and clientDecrypt raise
\* SignError and return no payload.
C6_TamperDetection ==
    \A c \in Clients :
        /\ /\ Returned(req[c]) /\ Called(got[c])
           /\ got[c].arg \in SignatureReplaced(req[c].val, K_value)
           => got[c].st = "SignError" /\ got[c].val = PyNone
        /\ /\ Returned(resp[c]) /\ Called(back[c])
           /\ UnderKey(resp[c].val, K_data, cAESKey[c])
           /\ back[c].arg \in SignatureReplaced(resp[c].val, K_data)
           => back[c].st = "SignError" /\ back[c].val = PyNone

\* Both directions in one exchange: the request and the response each had
\* its Signature replaced and each was refused with SignError.
C6_Witness ==
    /\ Returned(req["A"]) /\ Returned(resp["A"])
    /\ got["A"].arg \in SignatureReplaced(req["A"].val, K_value)
    /\ back["A"].arg \in SignatureReplaced(resp["A"].val, K_data)
    /\ got["A"].st = "SignError"
    /\ back["A"].st = "SignError"

\* e is no mapping, or a mapping without one of the fields.
Lacks(e, fields) == ~IsDict(e) \/ \E f \in fields : ~HasKey(e[2], f)

\* C9: serverDecrypt of an envelope that is no mapping or lacks `key` or
\* `value`, and clientDecrypt of one that is no mapping or lacks `data`,
\* raise TypeError, return nothing and leave the instance's key as it was.
C9_MalformedEnvelope ==
    [][ \A c \in Clients :
          /\ /\ got'[c] # got[c] /\ Called(got'[c])
             /\ Lacks(got'[c].arg, { K_key, K_value })
             => /\ got'[c].st = "TypeError" /\ got'[c].val = PyNone
                /\ sAESKey' = sAESKey
          /\ /\ back'[c] # back[c] /\ Called(back'[c])
             /\ Lacks(back'[c].arg, { K_data })
             => /\ back'[c].st = "TypeError" /\ back'[c].val = PyNone
                /\ cAESKey' = cAESKey
      ]_vars

\* The server, holding a key, refused an envelope without `value`, and the
\* client refused one without `data`.
C9_Witness ==
    /\ sAESKey # PyNone
    /\ IsDict(got["A"].arg) /\ HasKey(got["A"].arg[2], K_key)
    /\ ~HasKey(got["A"].arg[2], K_value)
    /\ got["A"].st = "TypeError"
    /\ IsDict(back["A"].arg) /\ ~HasKey(back["A"].arg[2], K_data)
    /\ back["A"].st = "TypeError"

\* The arguments of a call of sign on its own.
ParametersOf(call) == call.arg[1][2]
MetaOf(call) == call.arg[2][2]
IndexOf(call) == Get(MetaOf(call), K_SignatureIndex)

\* The fields the SignatureIndex strings of SignIndexes name.
NamedBy(signIndex) == IF signIndex = PyStr(K_a) THEN { K_a } ELSE { K_a, K_b }

\* Both mappings have the fields named, with the same values.
AgreeOn(p, q, names) ==
    \A name \in names :
        HasKey(p, name) /\ HasKey(q, name) /\ Get(p, name) = Get(q, name)

IsDigest(call) ==
    Returned(call) /\ IsStr(call.val) /\ Len(call.val[2]) = HexDigestLen

\* C7: with SignatureIndex False sign returns None; with None it returns a
\* digest over every payload field and the metadata (two calls get the same
\* one exactly when payload and metadata are the same mappings); with a
\* string naming fields it returns a digest over those fields and the
\* metadata (two payloads that have them get the same one exactly when they
\* agree on those fields and the metadata, whatever their other fields).
C7_SignatureIndexSemantics ==
    /\ \A i \in DOMAIN probe :
         /\ IndexOf(probe[i]) = PyFalse
              => Returned(probe[i]) /\ probe[i].val = PyNone
         /\ IndexOf(probe[i]) = PyNone => IsDigest(probe[i])
         /\ /\ IsStr(IndexOf(probe[i]))
            /\ NamedBy(IndexOf(probe[i])) \subseteq Keys(ParametersOf(probe[i]))
            => IsDigest(probe[i])
    /\ Len(probe) = 2 /\ IsDigest(probe[1]) /\ IsDigest(probe[2]) =>
         LET p == ParametersOf(probe[1])
             q == ParametersOf(probe[2])
             sameMeta == DictEq(MetaOf(probe[1]), MetaOf(probe[2]))
         IN  (probe[1].val = probe[2].val) <=>
               /\ sameMeta
               /\ IF IndexOf(probe[1]) = PyNone THEN DictEq(p, q)
                  ELSE AgreeOn(p, q, NamedBy(IndexOf(probe[1])))

\* Two payloads signed under "b, a" that agree on a and b, one of them with
\* a field c the other lacks, got the same digest.
C7_Witness ==
    /\ Len(probe) = 2
    /\ IsStr(IndexOf(probe[1])) /\ NamedBy(IndexOf(probe[1])) = { K_a, K_b }
    /\ HasKey(ParametersOf(probe[1]), K_c)
    /\ ~HasKey(ParametersOf(probe[2]), K_c)
    /\ IsDigest(probe[1])
    /\ probe[1].val = probe[2].val

\* C8: two calls of sign whose payloads are the same mapping (the same keys,
\* each with the same value) and whose metadata are the same mapping return
\* the same, whatever the order the payloads and the metadata were built in.
C8_OrderInvariance ==
    Len(probe) = 2 =>
        ( /\ DictEq(ParametersOf(probe[1]), ParametersOf(probe[2]))
          /\ DictEq(MetaOf(probe[1]), MetaOf(probe[2]))
          => probe[1].st = probe[2].st /\ probe[1].val = probe[2].val )

\* A payload of three fields and the metadata, each in two orders, signed
\* to the same digest.
C8_Witness ==
    /\ Len(probe) = 2
    /\ Len(ParametersOf(probe[1])) = 3
    /\ DictEq(ParametersOf(probe[1]), ParametersOf(probe[2]))
    /\ DictEq(MetaOf(probe[1]), MetaOf(probe[2]))
    /\ ParametersOf(probe[1]) # ParametersOf(probe[2])
    /\ MetaOf(probe[1]) # MetaOf(probe[2])
    /\ IsDigest(probe[1])
    /\ probe[1].val = probe[2].val

\* A str key whose length is no positive multiple of 16.
BadKeyLength(key) ==
    IsStr(key) /\ (Len(key[2]) = 0 \/ Len(key[2]) % 16 # 0)

\* C10: AESEncrypt and AESDecrypt called with a key whose length is not a
\* positive multiple of 16 (the empty key too) raise AESError and return
\* neither a ciphertext nor a plaintext.
C10_KeyLength ==
    \A i \in DOMAIN probe :
        BadKeyLength(probe[i].arg[2])
            => probe[i].st = "AESError" /\ probe[i].val = PyNone

\* AESDecrypt was called with a key of 24 characters on a ciphertext and
\* raised.
C10_Witness ==
    /\ Len(probe) = 1
    /\ probe[1].arg[1] = "AESDecrypt"
    /\ IsStr(probe[1].arg[2]) /\ Len(probe[1].arg[2][2]) = 24
    /\ probe[1].arg[3][1] = "b64"
    /\ Raised(probe[1])

\* An AES ciphertext made under a key that is not this one.
UnderOtherKey(ciphertext, key) ==
    /\ IsText(ciphertext) /\ ciphertext[1] = "b64"
    /\ ciphertext[2].alg = "aes"
    /\ IsStr(key) /\ ciphertext[2].key # key[2]

\* C11: AESDecrypt called with a text key whose length is a positive multiple
\* of 16 and which the cipher takes (so that there are decrypted bytes), on a
\* ciphertext made under another key, the bytes being no valid text, returns
\* False, a falsy value, and does not raise.
C11_NonTextSentinel ==
    \A i \in DOMAIN probe :
        /\ probe[i].arg[1] = "AESDecrypt"
        /\ IsStr(probe[i].arg[2]) /\ ~BadKeyLength(probe[i].arg[2])
        /\ AESNewOk(probe[i].arg[2])
        /\ UnderOtherKey(probe[i].arg[3], probe[i].arg[2])
        /\ probe[i].arg[4] = "nontext"
        => /\ Returned(probe[i])
           /\ probe[i].val = PyFalse
           /\ ~Truthy(probe[i].val)

\* A ciphertext made under the key of 32 characters was decrypted with the
\* key of 16, the bytes were no text, and False came back.
C11_Witness ==
    /\ Len(probe) = 1
    /\ probe[1].arg[1] = "AESDecrypt"
    /\ probe[1].arg[2] = KeyOfLen(16)
    /\ UnderOtherKey(probe[1].arg[3], probe[1].arg[2])
    /\ probe[1].arg[4] = "nontext"
    /\ probe[1].val = PyFalse

\* The string a call of sign on its own digested.
StringOf(call) == call.arg[3][2]

\* meta.get("SignatureIndex", None)
IndexIn(meta) ==
    IF HasKey(meta, K_SignatureIndex) THEN Get(meta, K_SignatureIndex) ELSE PyNone

\* The payload keys the SignatureIndex selects.
SelectedKeys(p, meta) ==
    IF Truthy(IndexIn(meta)) /\ IsStr(IndexIn(meta))
    THEN { conversionComma(IndexIn(meta))[i] :
             i \in 1..Len(conversionComma(IndexIn(meta))) }
    ELSE Keys(p)

\* One segment of the signing string.
Segment(k, v) ==
    percent_encode(PyStr(k)) \o << "=" >> \o percent_encode(v) \o << "&" >>

\* The number of places of text s where pat starts.
Occurrences(s, pat) ==
    Cardinality({ i \in 1..(Len(s) - Len(pat) + 1) :
                    SubSeq(s, i, i + Len(pat) - 1) = pat })

\* Two payloads of the same keys that differ at most in the values of keys
\* the metadata has too.
DifferAtMetaKeysOnly(p, q, meta) ==
    /\ Keys(p) = Keys(q)
    /\ \A k \in Keys(p) \ Keys(meta) : Get(p, k) = Get(q, k)

\* C12: when the selected payload subset has a key that is a field of the
\* metadata too (Timestamp, SignatureVersion, SignatureMethod,
\* SignatureIndex), the string sign digests has one segment for that key,
\* with the metadata's value and not the payload's; and sign returns the same
\* signature for two payloads that differ only in the values of such keys.
C12_MetadataWins ==
    /\ \A i \in DOMAIN probe :
         IsDigest(probe[i]) =>
           \A k \in SelectedKeys(ParametersOf(probe[i]), MetaOf(probe[i]))
                     \cap Keys(MetaOf(probe[i])) :
              /\ Occurrences(StringOf(probe[i]),
                             percent_encode(PyStr(k)) \o << "=" >>) = 1
              /\ Occurrences(StringOf(probe[i]),
                             Segment(k, Get(MetaOf(probe[i]), k))) = 1
              /\ probe[i].val = Md5(StringOf(probe[i]))
    /\ /\ Len(probe) = 2 /\ IsDigest(probe[1]) /\ IsDigest(probe[2])
       /\ MetaOf(probe[1]) = MetaOf(probe[2])
       /\ DifferAtMetaKeysOnly(ParametersOf(probe[1]), ParametersOf(probe[2]),
                               MetaOf(probe[1]))
       => probe[1].val = probe[2].val

\* Two payloads with field a and a Timestamp of their own, 0 in one and "x"
\* in the other, were signed under "Timestamp,a" to the same digest.
C12_Witness ==
    /\ Len(probe) = 2
    /\ IsStr(IndexIn(MetaOf(probe[1])))
    /\ HasKey(ParametersOf(probe[1]), K_Timestamp)
    /\ HasKey(ParametersOf(probe[2]), K_Timestamp)
    /\ Get(ParametersOf(probe[1]), K_Timestamp) = PyInt(0)
    /\ Get(ParametersOf(probe[2]), K_Timestamp) = PyStr(<< "x" >>)
    /\ IsDigest(probe[1])
    /\ probe[1].val = probe[2].val

\* Key a comes before key b in code point order: at the first place they
\* differ in, a has ended or has the lower code point.
Precedes(a, b) ==
    \E i \in 1..Len(b) :
        /\ \A j \in 1..(i - 1) : j <= Len(a) /\ a[j] = b[j]
        /\ (i > Len(a) \/ CodePoint(a[i]) < CodePoint(b[i]))

\* The value the merged mapping has at a key: the metadata's if it has one.
MergedValue(p, meta, k) == IF HasKey(meta, k) THEN Get(meta, k) ELSE Get(p, k)

\* The segments of the keys, the least key first.
RECURSIVE Ascending(_, _, _)
Ascending(p, meta, keys) ==
    IF keys = { } THEN << >>
    ELSE LET k == CHOOSE x \in keys : \A y \in keys \ { x } : Precedes(x, y)
         IN  Segment(k, MergedValue(p, meta, k))
             \o Ascending(p, meta, keys \ { k })

\* C13: the string sign digests is, over the keys of the merged mapping (the
\* selected payload keys and the metadata keys) in ascending code point order
\* of the keys as they are, the concatenation of encode(key) "=" encode(value)
\* "&", one segment for each key and a "&" after the last; it is empty for
\* an empty merged mapping; and the signature is its digest.
C13_CanonicalString ==
    \A i \in DOMAIN probe :
        IsDigest(probe[i]) =>
            /\ StringOf(probe[i]) =
                 Ascending(ParametersOf(probe[i]), MetaOf(probe[i]),
                           SelectedKeys(ParametersOf(probe[i]), MetaOf(probe[i]))
                           \cup Keys(MetaOf(probe[i])))
            /\ probe[i].val = Md5(StringOf(probe[i]))

\* A payload with the keys "a " and "a", built in that order, was signed
\* with the metadata of line 338, and the empty payload with no metadata.
C13_Witness ==
    /\ Len(probe) = 2
    /\ MetaOf(probe[1]) = << >>
    /\ ParametersOf(probe[1]) =
         << << << "a", " " >>, PyInt(2) >>, << K_a, PyInt(1) >> >>
    /\ IsDigest(probe[1])
    /\ ParametersOf(probe[2]) = << >>
    /\ StringOf(probe[2]) = << >>
    /\ IsDigest(probe[2])

\* What the characters of a text become, "+" becoming the text plus.
RECURSIVE Images(_, _)
Images(text, plus) ==
    IF text = << >> THEN << >>
    ELSE (CASE Head(text) = "*" -> << "%", "2", "A" >>
            [] Head(text) = "~" -> << "~" >>
            [] Head(text) = "+" -> plus
            [] OTHER -> QuoteChar(Head(text)))
         \o Images(Tail(text), plus)

\* C14 as stated: in the encoding of a value, every "*" of its JSON text has
\* become %2A, every "~" is there as it was, and every "+" has become %20.
C14_PlusAsSpace ==
    \A i \in DOMAIN probe :
        probe[i].val =
            PyStr(Images(JsonDumps(probe[i].arg, FALSE, TRUE), << "%", "2", "0" >>))

\* C14, amended: every "*" has become %2A, every "~" is there as it was, and
\* every "+" has become %2B (quote has escaped it before line 305 looks for
\* it; %20 is what a space becomes).
C14_PercentEncoding ==
    \A i \in DOMAIN probe :
        probe[i].val =
            PyStr(Images(JsonDumps(probe[i].arg, FALSE, TRUE), << "%", "2", "B" >>))

\* The text "*~+" was encoded, between the two quotes of its JSON text.
C14_Witness ==
    /\ Len(probe) = 1
    /\ probe[1].arg = PyStr(<< "*", "~", "+" >>)
    /\ probe[1].val =
         PyStr(<< "%", "2", "2", "%", "2", "A", "~", "%", "2", "B", "%", "2", "2" >>)

\* Envelope e has field f, an AES ciphertext made under a key other than k.
FieldUnderOtherKey(e, f, k) ==
    IsDict(e) /\ HasKey(e[2], f) /\ UnderOtherKey(Get(e[2], f), k)

\* C16: serverDecrypt of an envelope whose `value` was encrypted under a key
\* other than the one its `key` field gives, and clientDecrypt of an
\* envelope whose `data` was encrypted under a key other than the client's,
\* raise and return no payload, and clientDecrypt leaves the client's key as
\* it was.
C16_WrongKeyRefused ==
    /\ [](\A c \in Clients :
            /\ /\ Called(got[c]) /\ Recoverable(sPrivateKey, got[c].arg)
               /\ FieldUnderOtherKey(got[c].arg, K_value,
                      RecoveredFrom(Get(got[c].arg[2], K_key)))
               => Raised(got[c]) /\ got[c].val = PyNone
            /\ /\ Called(back[c])
               /\ FieldUnderOtherKey(back[c].arg, K_data, cAESKey[c])
               => Raised(back[c]) /\ back[c].val = PyNone)
    /\ [][ back' # back => cAESKey' = cAESKey ]_vars

\* The server got a request whose `key` wraps the forger's key, with the
\* client's `value`, the bytes being no text, and the client a response
\* made under the forger's key; both raised.
C16_Witness ==
    /\ Called(got["A"]) /\ Recoverable(sPrivateKey, got["A"].arg)
    /\ RecoveredFrom(Get(got["A"].arg[2], K_key)) = ForgerKey
    /\ FieldUnderOtherKey(got["A"].arg, K_value, ForgerKey)
    /\ got["A"].st = "TypeError"
    /\ Called(back["A"])
    /\ UnderKey(back["A"].arg, K_data, ForgerKey)
    /\ Raised(back["A"])

\* AES.new takes the key and the decryption of the ciphertext runs.
AESRuns(key, ciphertext) ==
    /\ IsStr(key) /\ AESParamsOk(key, ciphertext) /\ AESNewOk(key)
    /\ ciphertext[1] = "b64"

\* serverDecrypt got a key out of request e, ran the decryption and then
\* raised: the sentinel went to the parser, the text was unparsable,
\* __meta__ was missing or the signature did not match.
FailedAfterKey(call) ==
    /\ Raised(call)
    /\ Recoverable(sPrivateKey, call.arg)
    /\ AESRuns(RecoveredFrom(Get(call.arg[2], K_key)),
               Get(call.arg[2], K_value))

\* C15: serverDecrypt stores the recovered key before it decrypts, parses
\* and verifies; so when it then raises, the slot holds the key of the
\* failed request whatever it held before, and a following serverEncrypt
\* of a valid payload mapping returns a {data} envelope encrypted under the
\* failed request's key.
C15_KeyStoredBeforeVerification ==
    [][ \A c \in Clients :
          /\ (got'[c] # got[c] /\ FailedAfterKey(got'[c]))
                => sAESKey' = RecoveredFrom(Get(got'[c].arg[2], K_key))
          /\ (/\ resp'[c] # resp[c] /\ Called(resp'[c])
              /\ FailedAfterKey(got[c])
              /\ ValidReply(resp'[c].arg))
                => /\ Returned(resp'[c])
                   /\ UnderKey(resp'[c].val, K_data,
                               RecoveredFrom(Get(got[c].arg[2], K_key))) ]_vars

\* The request of A arrived with another key wrapped in it and failed; the
\* slot holds that key, not A's, and the response is encrypted under it.
C15_Witness ==
    /\ FailedAfterKey(got["A"])
    /\ RecoveredFrom(Get(got["A"].arg[2], K_key)) = ForgerKey
    /\ sAESKey = ForgerKey /\ sAESKey # cAESKey["A"]
    /\ Returned(resp["A"])
    /\ UnderKey(resp["A"].val, K_data, ForgerKey)

\* Document doc is unsigned: its __meta__ has SignatureIndex False and a
\* null Signature.
Unsigned(doc) ==
    /\ IsDict(doc) /\ HasKey(doc[2], K_meta)
    /\ IsDict(Get(doc[2], K_meta))
    /\ HasKey(Get(doc[2], K_meta)[2], K_SignatureIndex)
    /\ Get(Get(doc[2], K_meta)[2], K_SignatureIndex) = PyFalse
    /\ HasKey(Get(doc[2], K_meta)[2], K_Signature)
    /\ Get(Get(doc[2], K_meta)[2], K_Signature) = PyNone

\* Field f of envelope e, which the receiver decrypts with key k, holds an
\* unsigned document.
UnsignedUnder(e, f, k) ==
    /\ UnderKey(e, f, k)
    /\ AESRuns(k, Get(e[2], f))
    /\ Unsigned(DocOf(Get(e[2], f)))

\* The payload fields of the document in field f of envelope e.
FieldsOf(e, f) == PyDict(Without(DocOf(Get(e[2], f))[2], K_meta))

\* C17: an envelope built with signIndex False carries SignatureIndex False
\* and a null Signature, and serverDecrypt and clientDecrypt accept every
\* envelope whose document is so marked, returning its payload fields
\* whatever they are: a round trip with signIndex False succeeds and a
\* change to the payload fields of such an envelope goes undetected.
C17_UnsignedAccepted ==
    \A c \in Clients :
      /\ (Returned(req[c]) /\ req[c].arg[2] = PyFalse)
            => Unsigned(DocOf(Get(req[c].val[2], K_value)))
      /\ (Returned(resp[c]) /\ resp[c].arg[2] = PyFalse)
            => Unsigned(DocOf(Get(resp[c].val[2], K_data)))
      /\ (/\ Called(got[c]) /\ Recoverable(sPrivateKey, got[c].arg)
          /\ UnsignedUnder(got[c].arg, K_value,
                           RecoveredFrom(Get(got[c].arg[2], K_key))))
            => /\ Returned(got[c])
               /\ SameMapping(got[c].val, FieldsOf(got[c].arg, K_value))
      /\ (/\ Called(back[c]) /\ Truthy(back[c].arg)
          /\ UnsignedUnder(back[c].arg, K_data, cAESKey[c]))
            => /\ Returned(back[c])
               /\ SameMapping(back[c].val, FieldsOf(back[c].arg, K_data))

\* A sent an unsigned request; it arrived with field a changed and was
\* accepted with the changed value; the unsigned response came back as built.
C17_Witness ==
    /\ Returned(req["A"]) /\ req["A"].arg[2] = PyFalse
    /\ Called(got["A"]) /\ got["A"].arg # req["A"].val
    /\ Unsigned(DocOf(Get(got["A"].arg[2], K_value)))
    /\ Returned(got["A"])
    /\ HasKey(got["A"].val[2], K_a)
    /\ Get(got["A"].val[2], K_a) = PyInt(7)
    /\ Get(req["A"].arg[1][2], K_a) # PyInt(7)
    /\ Returned(resp["A"]) /\ resp["A"].arg[2] = PyFalse
    /\ Returned(back["A"]) /\ back["A"].arg = resp["A"].val

\* signIndex is a comma-separated string naming a key the mapping lacks.
NamesAbsent(mapping, signIndex) ==
    /\ IsDict(mapping) /\ IsStr(signIndex) /\ Truthy(signIndex)
    /\ ~IndexNamesPresent(mapping, signIndex)

\* Field f of envelope e, which the receiver decrypts with key k, holds a
\* document whose SignatureIndex names a key its payload fields lack.
AbsentNamedUnder(e, f, k) ==
    /\ UnderKey(e, f, k)
    /\ AESRuns(k, Get(e[2], f))
    /\ LET doc == DocOf(Get(e[2], f)) IN
       /\ IsDict(doc) /\ HasKey(doc[2], K_meta)
       /\ IsDict(Get(doc[2], K_meta))
       /\ HasKey(Get(doc[2], K_meta)[2], K_Signature)
       /\ HasKey(Get(doc[2], K_meta)[2], K_SignatureIndex)
       /\ NamesAbsent(FieldsOf(e, f),
                      Get(Get(doc[2], K_meta)[2], K_SignatureIndex))

\* C18: when the signIndex is a comma-separated string naming a key the
\* payload lacks, sign raises (KeyError): clientEncrypt and serverEncrypt
\* return no envelope and leave the instance's key as it was, and
\* serverDecrypt and clientDecrypt, given a document with such an index,
\* return no payload.
C18_AbsentIndexName ==
    [][ \A c \in Clients :
          /\ (/\ req'[c] # req[c] /\ Called(req'[c])
              /\ Truthy(req'[c].arg[1])
              /\ NamesAbsent(req'[c].arg[1], req'[c].arg[2]))
                => /\ req'[c].st = "KeyError" /\ req'[c].val = PyNone
                   /\ cAESKey' = cAESKey
          /\ (/\ resp'[c] # resp[c] /\ Called(resp'[c])
              /\ Truthy(resp'[c].arg[1])
              /\ NamesAbsent(resp'[c].arg[1], resp'[c].arg[2]))
                => /\ Raised(resp'[c]) /\ resp'[c].val = PyNone
                   /\ Truthy(sAESKey) => resp'[c].st = "KeyError"
                   /\ sAESKey' = sAESKey
          /\ (/\ got'[c] # got[c] /\ Called(got'[c])
              /\ Recoverable(sPrivateKey, got'[c].arg)
              /\ AbsentNamedUnder(got'[c].arg, K_value,
                                  RecoveredFrom(Get(got'[c].arg[2], K_key))))
                => got'[c].st = "KeyError" /\ got'[c].val = PyNone
          /\ (/\ back'[c] # back[c] /\ Called(back'[c])
              /\ Truthy(back'[c].arg)
              /\ AbsentNamedUnder(back'[c].arg, K_data, cAESKey[c]))
                => /\ back'[c].st = "KeyError" /\ back'[c].val = PyNone
                   /\ cAESKey' = cAESKey ]_vars

\* The request of A arrived with an index naming a field c it lacks and
\* serverDecrypt raised; the server then called serverEncrypt with an index
\* naming a field its reply lacks, which raised, the stored key staying.
C18_Witness ==
    /\ Called(got["A"])
    /\ Recoverable(sPrivateKey, got["A"].arg)
    /\ AbsentNamedUnder(got["A"].arg, K_value, cAESKey["A"])
    /\ got["A"].st = "KeyError"
    /\ Called(resp["A"])
    /\ NamesAbsent(resp["A"].arg[1], resp["A"].arg[2])
    /\ resp["A"].st = "KeyError"
    /\ sAESKey = cAESKey["A"]

\* The dicts of call record r other than the caller's own.
InternalCopies(r) == { r.arg[5][ref] : ref \in 2..Len(r.arg[5]) }

\* C19: clientEncrypt, serverEncrypt and sign leave the mapping the caller
\* passed as it was, whether they return or raise: the same fields in the
\* same order with the same values, no __meta__ and no metadata field
\* among them; when an envelope is returned, the dict that has __meta__ is
\* another one, and so is the dict sign adds the metadata fields to.
C19_CallerPayloadUnmodified ==
    \A i \in 1..Len(probe) :
        probe[i].arg[1] \in { "clientEncrypt", "serverEncrypt", "sign" }
        => /\ probe[i].arg[4] = probe[i].arg[2]
           /\ ~HasKey(probe[i].arg[4][2], K_meta)
           /\ \A k \in { K_Signature, K_SignatureIndex, K_SignatureMethod,
                          K_SignatureVersion } :
                 ~HasKey(probe[i].arg[4][2], k)
           /\ (Returned(probe[i]) /\ probe[i].arg[1] # "sign")
                => \E copy \in InternalCopies(probe[i]) : HasKey(copy, K_meta)
           /\ (Returned(probe[i]) /\ probe[i].arg[1] = "sign"
                 /\ probe[i].val # PyNone /\ Truthy(probe[i].arg[3]))
                => \E copy \in InternalCopies(probe[i]) :
                      HasKey(copy, K_SignatureVersion)

\* A payload with a Timestamp field of its own was sealed by serverEncrypt:
\* the caller's dict is as it was and another dict has __meta__.
C19_Witness ==
    /\ Len(probe) = 1
    /\ probe[1].arg[1] \in { "clientEncrypt", "serverEncrypt", "sign" }
    /\ HasKey(probe[1].arg[2][2], K_Timestamp)
    /\ probe[1].arg[4] = probe[1].arg[2]
    /\ Returned(probe[1]) /\ probe[1].arg[1] = "serverEncrypt"
    /\ \E copy \in InternalCopies(probe[1]) :
         HasKey(copy, K_meta) /\ HasKey(copy, K_Timestamp)

====
